---- MODULE Spec2Model ----
(***************************************************************************)
(* Review acquisition and fraud scoring pipeline of fraud_reviews.         *)
(*                                                                         *)
(* Part 1 (specification Spec): one scrape request - the scoped browser    *)
(* session of scrape_and_analyze, GoogleMapsScraper.initialize,            *)
(* scrape_business, the harvesting loop _scrape_all_reviews and close.     *)
(* Every awaited browser operation is a step that the page decides: it     *)
(* succeeds, finds nothing, or raises.                                     *)
(*                                                                         *)
(* Part 2 (specification SpecScore): one analysis - FraudDetector          *)
(* .analyze_business over the reviews read back from the store, the two    *)
(* rules, and FraudScorer.calculate_score.  Scores are exact rationals     *)
(* <<numerator, denominator>>; values rounded to one decimal are integers  *)
(* counting tenths (66.7 is 667).                                          *)
(*                                                                         *)
(* Part 3 (specification SpecExtract): _extract_review_data on one review  *)
(* element, and the store step of /analyze reading the record it returns.  *)
(* Texts the regular expressions are applied to are sequences of tokens.   *)
(***************************************************************************)
EXTENDS Integers, Sequences, FiniteSets, TLC

\* ---------------------------------------------------------------- constants

\* config.py: MAX_REVIEWS_TO_SCRAPE
MAX_REVIEWS_TO_SCRAPE == 100

\* _scrape_all_reviews: max_scrolls = 100  (safety limit of the for loop)
max_scrolls == 100

\* _scrape_all_reviews: `if no_new_reviews_count >= 3`
NoNewReviewsLimit == 3

\* Largest number of review elements one enumeration of the page renders.
MaxRendered == 3

\* ---------------------------------------------------------------- state

VARIABLES
    pc,                     \* position of the request's coroutine
    playwright,             \* self.playwright: "None", "open" or "closed"
    browser,                \* self.browser
    context,                \* the browser context made by initialize
    page,                   \* self.page
    raised,                 \* an exception is propagating out of the try block
    reviews_visible,        \* scrape_business: reviews_visible
    reviews,                \* len(reviews) of _scrape_all_reviews
    last_count,             \* _scrape_all_reviews: last_count
    no_new_reviews_count,   \* _scrape_all_reviews: no_new_reviews_count
    scroll_iteration,       \* iterations of the for loop completed so far
    review_elements,        \* len(review_elements) of the current enumeration
    elem,                   \* index of the element the inner for loop is at
    stop_reason,            \* why _scrape_all_reviews returned ("none" before)
    leftover,               \* rendered elements not extracted at the return
    stalled,                \* history: consecutive iterations without growth
    apc,                    \* position of the analysis
    rules,                  \* FraudDetector.rules: the enabled rules, in order
    stored_reviews,         \* reviews_from_db handed to analyze_business
    failing,                \* rules whose analyze raises whatever the reviews
    rule_idx,               \* analyze_business: which rule the loop is at
    origin,                 \* who made rule_results: "detector" or "direct"
    rule_results,           \* the outcome mapping, in insertion order
    final_score,            \* what calculate_score returned
    xpc,                    \* position of _extract_review_data and the store step
    review_data,            \* _extract_review_data: review_data, a key -> value map
    store_outcome,          \* what reading the record in /analyze came to
    rpc,                    \* position of /analyze and of scrape_business in it
    goto_calls,             \* how often page.goto was called for the request
    the_page,               \* the page the address leads to
    business_data,          \* _extract_business_info: business_data
    panel,                  \* how _click_reviews_tab activated the reviews control
    cause,                  \* which return of _scrape_all_reviews was taken
    scrape_result,          \* what scrape_business handed to /analyze
    error_msg,              \* the error /analyze rendered
    url,                    \* parse_google_maps_url: the address given
    redirected,             \* what follow_redirect came to for a short link
    parsed,                 \* what parse_google_maps_url returned
    http_requests,          \* follow_redirect: the requests issued, with what each came to
    time_text,              \* _parse_relative_time: the text given
    resolved,               \* _parse_relative_time: what the call came to
    reviewers,              \* the rows of table reviewers; a row's id is its place
    reviewer_calls,         \* history: each save_reviewer call with the id it returned
    req,                    \* per worker thread: the locals of its analyze() call
    businesses,             \* the rows of table businesses; a row's id is its place
    review_rows,            \* the rows of table reviews
    analysis_results,       \* the rows of table analysis_results
    sessions,               \* every GoogleMapsScraper object created so far
    served,                 \* how many requests were taken so far
    lang_text,              \* _detect_language: the text given, as code points
    language,               \* _detect_language: what it returned
    redirect_chain,         \* how many redirects lie between a short link and its listing
    max_redirects,          \* follow_redirect: the argument max_redirects
    followed,               \* follow_redirect: what the call came to
    tab_pc,                 \* position of _click_reviews_tab
    tried,                  \* history: the selectors queried so far, in order
    tab_clicks,             \* history: the clicks made, counted by kind
    tab_result,             \* what _click_reviews_tab returned
    listed,                 \* the review rows of a business, as stored
    shuffle,                \* the same rows in another order: their ids
    evidence                \* what the rules report on either order

sessionVars == <<playwright, browser, context, page>>
loopVars == <<reviews, last_count, no_new_reviews_count, scroll_iteration,
              review_elements, elem, stop_reason, leftover, stalled>>
vars == <<pc, playwright, browser, context, page, raised,
          reviews_visible, reviews, last_count, no_new_reviews_count,
          scroll_iteration, review_elements, elem, stop_reason, leftover, stalled,
          apc, rules, stored_reviews, failing, rule_idx, origin, rule_results, final_score,
          xpc, review_data, store_outcome,
          rpc, goto_calls, the_page, business_data, panel, cause, scrape_result, error_msg,
          url, redirected, parsed, http_requests,
          time_text, resolved,
          reviewers, reviewer_calls,
          req, businesses, review_rows, analysis_results, sessions, served,
          lang_text, language,
          redirect_chain, max_redirects, followed,
          tab_pc, tried, tab_clicks, tab_result,
          listed, shuffle, evidence>>
parseVars == <<url, redirected, parsed, http_requests>>
timeVars == <<time_text, resolved>>
reviewerVars == <<reviewers, reviewer_calls>>
serveVars == <<req, businesses, review_rows, analysis_results, sessions, served>>
langVars == <<lang_text, language>>
redirectVars == <<redirect_chain, max_redirects, followed>>
tabVars == <<tab_pc, tried, tab_clicks, tab_result>>
orderVars == <<listed, shuffle, evidence>>
laterVars == <<langVars, redirectVars, tabVars, orderVars>>
otherVars == <<timeVars, reviewerVars, serveVars, laterVars>>
extractVars == <<xpc, review_data, store_outcome>>
flowVars == <<rpc, goto_calls, the_page, business_data, panel, cause, scrape_result, error_msg>>
scoreVars == <<apc, rules, stored_reviews, failing, rule_idx, origin, rule_results, final_score>>
scrapeVars == <<pc, playwright, browser, context, page, raised, reviews_visible,
                reviews, last_count, no_new_reviews_count, scroll_iteration,
                review_elements, elem, stop_reason, leftover, stalled>>

Released(r) == r \in {"None", "closed"}

\* GoogleMapsScraper.__init__ and the locals of a call not yet made.
ScrapeInit ==
    /\ pc = "idle"
    /\ playwright = "None" /\ browser = "None" /\ context = "None" /\ page = "None"
    /\ raised = FALSE
    /\ reviews_visible = FALSE
    /\ reviews = 0 /\ last_count = 0 /\ no_new_reviews_count = 0
    /\ scroll_iteration = 0 /\ review_elements = 0 /\ elem = 0
    /\ stop_reason = "none" /\ leftover = 0 /\ stalled = 0

\* ---------------------------------------------------------------- try / finally

\* The locals of _scrape_all_reviews die with its frame when it raises.
ResetLoop ==
    /\ reviews' = 0 /\ last_count' = 0 /\ no_new_reviews_count' = 0
    /\ scroll_iteration' = 0 /\ review_elements' = 0 /\ elem' = 0
    /\ stop_reason' = "none" /\ leftover' = 0 /\ stalled' = 0

\* Where control goes when the try block is left: the finally clause, close().
FinallyNoClose == "end"
Finally == "close_page"

\* An exception leaves the try block of scrape_and_analyze.
Raise ==
    /\ raised' = TRUE
    /\ pc' = Finally
    /\ ResetLoop

\* scrape_and_analyze: `try: await scraper.initialize()`.
Call ==
    /\ pc = "idle"
    /\ pc' = "init_playwright"
    /\ UNCHANGED <<sessionVars, raised, reviews_visible, loopVars>>
    /\ UNCHANGED <<scoreVars, extractVars, flowVars, parseVars, otherVars>>

\* ---------------------------------------------------------------- initialize

\* self.playwright = await async_playwright().start()
StartPlaywright ==
    /\ pc = "init_playwright"
    /\ \/ /\ playwright' = "open"
          /\ pc' = "init_browser"
          /\ UNCHANGED <<raised, loopVars>>
       \/ /\ Raise
          /\ UNCHANGED playwright
    /\ UNCHANGED <<browser, context, page, reviews_visible>>
    /\ UNCHANGED <<scoreVars, extractVars, flowVars, parseVars, otherVars>>

\* self.browser = await self.playwright.chromium.launch(...)
LaunchBrowser ==
    /\ pc = "init_browser"
    /\ \/ /\ browser' = "open"
          /\ pc' = "init_context"
          /\ UNCHANGED <<raised, loopVars>>
       \/ /\ Raise
          /\ UNCHANGED browser
    /\ UNCHANGED <<playwright, context, page, reviews_visible>>
    /\ UNCHANGED <<scoreVars, extractVars, flowVars, parseVars, otherVars>>

\* context = await self.browser.new_context(...)
NewContext ==
    /\ pc = "init_context"
    /\ \/ /\ context' = "open"
          /\ pc' = "init_page"
          /\ UNCHANGED <<raised, loopVars>>
       \/ /\ Raise
          /\ UNCHANGED context
    /\ UNCHANGED <<playwright, browser, page, reviews_visible>>
    /\ UNCHANGED <<scoreVars, extractVars, flowVars, parseVars, otherVars>>

\* self.page = await context.new_page(); initialize returns and
\* scrape_and_analyze goes on to `result = await scraper.scrape_business(url)`.
NewPage ==
    /\ pc = "init_page"
    /\ \/ /\ page' = "open"
          /\ pc' = "scrape_business"
          /\ UNCHANGED <<raised, loopVars>>
       \/ /\ Raise
          /\ UNCHANGED page
    /\ UNCHANGED <<playwright, browser, context, reviews_visible>>
    /\ UNCHANGED <<scoreVars, extractVars, flowVars, parseVars, otherVars>>

\* ---------------------------------------------------------------- scrape_business

\* `if not self.page: await self.initialize()`
ScrapeBusiness ==
    /\ pc = "scrape_business"
    /\ pc' = IF page = "None" THEN "init_playwright" ELSE "goto"
    /\ UNCHANGED <<sessionVars, raised, reviews_visible, loopVars>>
    /\ UNCHANGED <<scoreVars, extractVars, flowVars, parseVars, otherVars>>

\* page.goto(url, timeout=60000), the delay and the debug screenshot.
Navigate ==
    /\ pc = "goto"
    /\ \/ /\ pc' = "extract_info"
          /\ UNCHANGED <<raised, loopVars>>
       \/ Raise
    /\ UNCHANGED <<sessionVars, reviews_visible>>
    /\ UNCHANGED <<scoreVars, extractVars, flowVars, parseVars, otherVars>>

\* _extract_business_info: every lookup is wrapped, nothing propagates.
ExtractBusinessInfo ==
    /\ pc = "extract_info"
    /\ pc' = "click_tab"
    /\ UNCHANGED <<sessionVars, raised, reviews_visible, loopVars>>
    /\ UNCHANGED <<scoreVars, extractVars, flowVars, parseVars, otherVars>>

\* Method 1: `clicked = await self._click_reviews_tab()` inside try/except.
\* reviews_visible is set only after the click, the delay and the screenshot
\* all went through; a raise anywhere in the block is logged and swallowed.
ClickReviewsTab ==
    /\ pc = "click_tab"
    /\ \/ /\ reviews_visible' = TRUE      \* clicked, screenshot saved
          /\ pc' = "sort"
       \/ /\ reviews_visible' = FALSE     \* _click_reviews_tab returned False
          /\ pc' = "scroll_page"
       \/ /\ reviews_visible' = FALSE     \* the block raised: "Method 1 failed"
          /\ pc' = "scroll_page"
    /\ UNCHANGED <<sessionVars, raised, loopVars>>
    /\ UNCHANGED <<scoreVars, extractVars, flowVars, parseVars, otherVars>>

\* Method 2: `if not reviews_visible:` window.scrollTo, failure swallowed.
ScrollPage ==
    /\ pc = "scroll_page"
    /\ ~reviews_visible
    /\ pc' = "sort"
    /\ UNCHANGED <<sessionVars, raised, reviews_visible, loopVars>>
    /\ UNCHANGED <<scoreVars, extractVars, flowVars, parseVars, otherVars>>

\* _sort_by_newest inside try/except: best effort, never propagates.
SortByNewest ==
    /\ pc = "sort"
    /\ pc' = "find_container"
    /\ UNCHANGED <<sessionVars, raised, reviews_visible, loopVars>>
    /\ UNCHANGED <<scoreVars, extractVars, flowVars, parseVars, otherVars>>

\* ---------------------------------------------------------------- _scrape_all_reviews

\* `return reviews`: scrape_business returns the result and the try block is
\* left normally.  The returned list stays in `reviews`.
Return(why, left) ==
    /\ stop_reason' = why
    /\ leftover' = left
    /\ pc' = Finally

\* The container selector chain: wait_for_selector timeouts are swallowed; with
\* no container the debug screenshot is taken and the empty list returned.
FindContainer ==
    /\ pc = "find_container"
    /\ \/ /\ pc' = "find_selector"
          /\ UNCHANGED <<raised, loopVars>>
       \/ /\ Return("no_container", 0)
          /\ UNCHANGED <<raised, reviews, last_count, no_new_reviews_count,
                         scroll_iteration, review_elements, elem, stalled>>
       \/ Raise                            \* the screenshot raised
    /\ reviews_visible' = FALSE            \* scrape_business reads it no more
    /\ UNCHANGED <<sessionVars>>
    /\ UNCHANGED <<scoreVars, extractVars, flowVars, parseVars, otherVars>>

\* The review-element selector chain: the first selector with a match wins.
FindSelector ==
    /\ pc = "find_selector"
    /\ \/ /\ pc' = "enumerate"
          /\ UNCHANGED <<raised, loopVars>>
       \/ /\ Return("no_selector", 0)
          /\ UNCHANGED <<raised, reviews, last_count, no_new_reviews_count,
                         scroll_iteration, review_elements, elem, stalled>>
       \/ Raise                            \* query_selector_all or screenshot raised
    /\ UNCHANGED <<sessionVars, reviews_visible>>
    /\ UNCHANGED <<scoreVars, extractVars, flowVars, parseVars, otherVars>>

\* `for scroll_iteration in range(max_scrolls)`: whether another iteration runs.
LoopContinuesUnbounded(i) == TRUE
LoopContinues(i) == i < max_scrolls

\* Head of an iteration: review_elements = query_selector_all(working_selector).
\* The page decides how many elements it renders.
Enumerate ==
    /\ pc = "enumerate"
    /\ LoopContinues(scroll_iteration)
    /\ \/ /\ \E n \in 0..MaxRendered :
                /\ review_elements' = n
                /\ elem' = last_count
                /\ pc' = IF last_count < n THEN "extract" ELSE "check"
                /\ stalled' = IF n > last_count THEN 0 ELSE stalled + 1
          /\ UNCHANGED <<raised, reviews, last_count, no_new_reviews_count,
                         scroll_iteration, stop_reason, leftover>>
       \/ Raise
    /\ UNCHANGED <<sessionVars, reviews_visible>>
    /\ UNCHANGED <<scoreVars, extractVars, flowVars, parseVars, otherVars>>

\* range(max_scrolls) is exhausted: fall out of the loop and return.
LoopExhausted ==
    /\ pc = "enumerate"
    /\ ~LoopContinues(scroll_iteration)
    /\ Return("max_scrolls", 0)
    /\ UNCHANGED <<sessionVars, raised, reviews_visible,
                   reviews, last_count, no_new_reviews_count, scroll_iteration,
                   review_elements, elem, stalled>>
    /\ UNCHANGED <<scoreVars, extractVars, flowVars, parseVars, otherVars>>

\* `if len(reviews) >= MAX_REVIEWS_TO_SCRAPE: return reviews`
ReachedMaximumLate(n) == n > MAX_REVIEWS_TO_SCRAPE
ReachedMaximum(n) == n >= MAX_REVIEWS_TO_SCRAPE

\* One pass of `for elem in review_elements[last_count:]`: _extract_review_data
\* returns a record (its text and language are always set), it is appended,
\* and the maximum is checked.
ExtractReview ==
    /\ pc = "extract"
    /\ elem < review_elements
    /\ reviews' = reviews + 1
    /\ IF ReachedMaximum(reviews')
         THEN /\ Return("max_reviews", review_elements - (elem + 1))
              /\ UNCHANGED elem
         ELSE /\ elem' = elem + 1
              /\ pc' = IF elem + 1 < review_elements THEN "extract" ELSE "check"
              /\ UNCHANGED <<stop_reason, leftover>>
    /\ UNCHANGED <<sessionVars, raised, reviews_visible,
                   last_count, no_new_reviews_count, scroll_iteration,
                   review_elements, stalled>>
    /\ UNCHANGED <<scoreVars, extractVars, flowVars, parseVars, otherVars>>

\* `if current_count == last_count:` the count did not change.
NoNewReviews(current_count, last) == current_count = last

\* "Check if new reviews loaded", then scroll the container to its end.
CheckGrowth ==
    /\ pc = "check"
    /\ LET current_count == review_elements
           window == IF NoNewReviews(current_count, last_count)
                       THEN no_new_reviews_count + 1 ELSE 0
       IN  /\ no_new_reviews_count' = window
           /\ \/ /\ NoNewReviews(current_count, last_count)
                 /\ window >= NoNewReviewsLimit      \* break
                 /\ Return("no_growth", 0)
                 /\ UNCHANGED <<raised, reviews, last_count, scroll_iteration,
                                review_elements, elem, stalled>>
              \/ /\ ~(NoNewReviews(current_count, last_count) /\ window >= NoNewReviewsLimit)
                 /\ last_count' = current_count
                 /\ scroll_iteration' = scroll_iteration + 1
                 /\ pc' = "enumerate"
                 /\ UNCHANGED <<raised, reviews, review_elements, elem,
                                stop_reason, leftover, stalled>>
    /\ UNCHANGED <<sessionVars, reviews_visible>>
    /\ UNCHANGED <<scoreVars, extractVars, flowVars, parseVars, otherVars>>

\* reviews_container.evaluate('el => el.scrollTop = el.scrollHeight') raised.
ScrollRaises ==
    /\ pc = "check"
    /\ ~(NoNewReviews(review_elements, last_count)
         /\ no_new_reviews_count + 1 >= NoNewReviewsLimit)
    /\ Raise
    /\ UNCHANGED <<sessionVars, reviews_visible>>
    /\ UNCHANGED <<scoreVars, extractVars, flowVars, parseVars, otherVars>>

\* ---------------------------------------------------------------- close

\* `if self.page: await self.page.close()`
ClosePage ==
    /\ pc = "close_page"
    /\ page' = IF page # "None" THEN "closed" ELSE page
    /\ pc' = "close_browser"
    /\ UNCHANGED <<playwright, browser, context, raised,
                   reviews_visible, loopVars>>
    /\ UNCHANGED <<scoreVars, extractVars, flowVars, parseVars, otherVars>>

\* `if self.browser: await self.browser.close()`: closing the browser closes
\* its contexts and their pages.
CloseBrowser ==
    /\ pc = "close_browser"
    /\ IF browser # "None"
         THEN /\ browser' = "closed"
              /\ context' = IF context = "open" THEN "closed" ELSE context
              /\ page' = IF page = "open" THEN "closed" ELSE page
         ELSE UNCHANGED <<browser, context, page>>
    /\ pc' = "close_playwright"
    /\ UNCHANGED <<playwright, raised, reviews_visible, loopVars>>
    /\ UNCHANGED <<scoreVars, extractVars, flowVars, parseVars, otherVars>>

\* `if self.playwright: await self.playwright.stop()`; then the finally clause
\* ends: the result is returned or the exception propagates to the caller.
StopPlaywright ==
    /\ pc = "close_playwright"
    /\ playwright' = IF playwright # "None" THEN "closed" ELSE playwright
    /\ pc' = "end"
    /\ UNCHANGED <<browser, context, page, raised,
                   reviews_visible, loopVars>>
    /\ UNCHANGED <<scoreVars, extractVars, flowVars, parseVars, otherVars>>

\* ================================================================ Part 2
\* ---------------------------------------------------------------- numbers

\* Largest number of stored reviews handed to one analysis.
MaxReviews == 3

Max(a, b) == IF a >= b THEN a ELSE b
Min(a, b) == IF a <= b THEN a ELSE b

\* Exact rationals <<n, d>>, d > 0, for Python's float scores.
RLe(x, y) == x[1] * y[2] <= y[1] * x[2]
RLt(x, y) == x[1] * y[2] < y[1] * x[2]
REq(x, y) == x[1] * y[2] = y[1] * x[2]
RAdd(x, y) == <<x[1] * y[2] + y[1] * x[2], x[2] * y[2]>>
RMin(x, y) == IF RLe(x, y) THEN x ELSE y

\* round(n / d) to the nearest integer, ties to the even one (Python 3 round).
RoundHalfEven(n, d) ==
    LET q == n \div d
        r == n - q * d
    IN  IF 2 * r < d THEN q
        ELSE IF 2 * r > d THEN q + 1
        ELSE IF q % 2 = 0 THEN q ELSE q + 1

\* round(x, 1), as a count of tenths.
RoundTenths(x) == RoundHalfEven(10 * x[1], x[2])

\* ---------------------------------------------------------------- review texts

\* text_similarity.py: `if len(text1) < 20 or len(text2) < 20: continue`
MinTextLength == 20

\* config.py: TEXT_SIMILARITY_THRESHOLD
TEXT_SIMILARITY_THRESHOLD == 85

\* text_similarity.py: `similar_pairs[:10]`; timing_analysis.py: `[:10]`
FlaggedLimit == 10

\* TimingAnalysisRule.__init__: min_cluster_size = 2
min_cluster_size == 2

\* A review text is None (a NULL column) or a string, here a sequence of
\* characters 1, 2, 3.
NoneText == [isNone |-> TRUE, s |-> <<>>]
Str(chars) == [isNone |-> FALSE, s |-> chars]

TextA == Str([i \in 1..20 |-> 1])
\* TextA with three characters replaced: ratio 85 with TextA.
TextA2 == Str([i \in 1..20 |-> IF i <= 3 THEN 2 ELSE 1])
\* TextA with four characters replaced: ratio 80 with TextA, 95 with TextA2.
TextA3 == Str([i \in 1..20 |-> IF i <= 4 THEN 2 ELSE 1])
\* Nineteen characters: one short of the minimum length.
TextShort == Str([i \in 1..19 |-> 1])
\* Shares no character with the others.
TextB == Str([i \in 1..21 |-> 3])

TextSamples == {TextA, TextA2, TextA3, TextShort, TextB}

\* One row of the longest-common-subsequence table of a and b: row i from
\* row i-1 (prev), filled left to right; entry j+1 is the LCS length of
\* a[1..i] and b[1..j].
RECURSIVE LcsRow(_, _, _, _)
LcsRow(prev, ch, b, acc) ==
    LET j == Len(acc)
    IN  IF j > Len(b) THEN acc
        ELSE LcsRow(prev, ch, b,
                    Append(acc, IF ch = b[j] THEN prev[j] + 1
                                ELSE Max(prev[j + 1], acc[j])))

RECURSIVE LcsRows(_, _, _, _)
LcsRows(a, b, i, prev) ==
    IF i > Len(a) THEN prev[Len(b) + 1]
    ELSE LET row == LcsRow(prev, a[i], b, <<0>>)
         IN  IF Len(row) = Len(b) + 1 THEN LcsRows(a, b, i + 1, row) ELSE 0

Lcs(a, b) == LcsRows(a, b, 1, [j \in 1..(Len(b) + 1) |-> 0])

\* fuzz.ratio(s1, s2): int(round(100 * 2M / T)), M the matched characters
\* (Levenshtein ratio: insertions and deletions only), T the total length.
FuzzRatio(a, b) ==
    IF Len(a) + Len(b) = 0 THEN 100
    ELSE RoundHalfEven(100 * 2 * Lcs(a, b), Len(a) + Len(b))

\* The ratios of the sample texts, computed once.
RECURSIVE RatioRows(_)
RatioRows(pairs) ==
    IF pairs = {} THEN <<>>
    ELSE LET p == CHOOSE q \in pairs : TRUE
         IN  (p :> FuzzRatio(p[1].s, p[2].s)) @@ RatioRows(pairs \ {p})
RatioTable == RatioRows(TextSamples \X TextSamples)
ratio(text1, text2) == RatioTable[<<text1, text2>>]

\* ---------------------------------------------------------------- stored reviews

\* review_date as read back from the store: NULL, a string that
\* datetime.fromisoformat rejects, or an ISO string (t: seconds on the clock).
NoDate == [kind |-> "None", t |-> 0]
BadDate == [kind |-> "bad", t |-> 0]
IsoDate(t) == [kind |-> "iso", t |-> t]

Review(reviewer, text, date) ==
    [reviewer_id |-> reviewer, review_text |-> text, review_date |-> date]

\* The review rows an analysis may find; a row's id is its place in the list.
ReviewSamples ==
    { Review(1, TextA, IsoDate(60)),
      Review(2, TextA2, IsoDate(119)),
      Review(2, TextA3, IsoDate(120)),
      Review(1, TextA, IsoDate(125)),
      Review(3, TextA, NoDate),
      Review(2, TextShort, BadDate),
      Review(3, TextB, IsoDate(61)),
      Review(1, NoneText, IsoDate(200)) }

RECURSIVE SeqsUpTo(_, _)
SeqsUpTo(S, n) ==
    IF n = 0 THEN {<<>>}
    ELSE LET shorter == SeqsUpTo(S, n - 1)
         IN  shorter \cup {Append(q, x) : q \in {q \in shorter : Len(q) = n - 1}, x \in S}

ReviewLists == SeqsUpTo(ReviewSamples, MaxReviews)

\* A business with more stored rows: six reviews by three reviewers whose
\* texts are all similar (twelve flagged pairs), then two reviews with one
\* other text, similar to each other only (the thirteenth pair).
ManySimilarReviews ==
    << Review(1, TextA, IsoDate(60)), Review(2, TextA2, IsoDate(119)),
       Review(3, TextA, NoDate), Review(1, TextA, IsoDate(125)),
       Review(2, TextA2, IsoDate(119)), Review(3, TextA, NoDate),
       Review(3, TextB, IsoDate(61)), Review(1, TextB, IsoDate(300)) >>

LongReviewLists == {ManySimilarReviews}

StoredLists == ReviewLists \cup LongReviewLists

\* ---------------------------------------------------------------- TextSimilarityRule

\* Neighbouring reviews only.
AdjacentPairs(n) == [k \in 1..(IF n > 1 THEN n - 1 ELSE 0) |-> <<k, k + 1>>]

\* itertools.combinations(reviews, 2): the index pairs i < j in order.
Combinations2(n) ==
    SelectSeq([k \in 1..(n * n) |-> <<((k - 1) \div n) + 1, ((k - 1) % n) + 1>>],
              LAMBDA p : p[1] < p[2])

\* `len(text1) < 20 or len(text2) < 20`: len(None) raises TypeError, and `or`
\* does not look at text2 when text1 is already too short.
TooShortRaises(text1, text2) ==
    \/ text1.isNone
    \/ Len(text1.s) >= MinTextLength /\ text2.isNone

TooShort(text1, text2) ==
    Len(text1.s) < MinTextLength \/ Len(text2.s) < MinTextLength

SameReviewer(r1, r2) == r1.reviewer_id = r2.reviewer_id

\* analyze raises when some compared pair has a None text.
TextSimilarityRaises(rs) ==
    /\ Len(rs) >= 2
    /\ \E i, j \in 1..Len(rs) :
          /\ i < j
          /\ ~SameReviewer(rs[i], rs[j])
          /\ TooShortRaises(rs[i].review_text, rs[j].review_text)

\* The pair's ratio is above the threshold.
IsAboveThresholdPair(r1, r2) ==
    /\ ~SameReviewer(r1, r2)
    /\ ~TooShort(r1.review_text, r2.review_text)
    /\ ratio(r1.review_text, r2.review_text) > TEXT_SIMILARITY_THRESHOLD

\* The pair is appended to similar_pairs.
IsSimilarPair(r1, r2) ==
    /\ ~SameReviewer(r1, r2)
    /\ ~TooShort(r1.review_text, r2.review_text)
    /\ ratio(r1.review_text, r2.review_text) >= TEXT_SIMILARITY_THRESHOLD

similar_pairs(rs) ==
    LET hits == SelectSeq(Combinations2(Len(rs)),
                          LAMBDA p : IsSimilarPair(rs[p[1]], rs[p[2]]))
    IN  [k \in 1..Len(hits) |->
            [review1_id |-> hits[k][1], review2_id |-> hits[k][2],
             similarity |-> ratio(rs[hits[k][1]].review_text, rs[hits[k][2]].review_text)]]

\* The ids of the pairs reported only.
unique_reported_reviews(pairs) ==
    {pairs[k].review1_id : k \in 1..Min(Len(pairs), FlaggedLimit)}
        \cup {pairs[k].review2_id : k \in 1..Min(Len(pairs), FlaggedLimit)}

unique_flagged_reviews(pairs) ==
    {pairs[k].review1_id : k \in 1..Len(pairs)} \cup {pairs[k].review2_id : k \in 1..Len(pairs)}

Head10(q) == SubSeq(q, 1, Min(Len(q), FlaggedLimit))

Reasoning(kind, n, top, at) == [kind |-> kind, n |-> n, top |-> top, at |-> at]

Insufficient ==
    [score |-> <<0, 1>>, flagged_items |-> <<>>,
     reasoning |-> Reasoning("insufficient", 0, 0, 0)]

\* score = (len(unique_flagged_reviews) / len(reviews)) * 100, capped at 100.
TextScoreByPairs(pairs, n) == <<100 * 2 * Len(pairs), n>>
TextScore(pairs, n) ==
    RMin(<<100 * Cardinality(unique_flagged_reviews(pairs)), n>>, <<100, 1>>)

\* TextSimilarityRule.analyze, when it returns.
TextSimilarityAnalyze(rs) ==
    IF Len(rs) < 2 THEN Insufficient
    ELSE LET pairs == similar_pairs(rs)
         IN  [score |-> TextScore(pairs, Len(rs)),
              flagged_items |-> Head10(pairs),
              reasoning |-> IF Len(pairs) = 0
                              THEN Reasoning("no_similar", 0, 0, 0)
                              ELSE Reasoning("found_pairs", Len(pairs),
                                             TEXT_SIMILARITY_THRESHOLD, 0)]

\* ---------------------------------------------------------------- TimingAnalysisRule

\* The review gets into a bucket: its date parses.
HasTimestamp(r) == r.review_date.kind = "iso"

\* The timestamp as it is, seconds included.
exact_timestamp(r) == r.review_date.t

\* timestamp.replace(second=0, microsecond=0)
minute_timestamp(r) == r.review_date.t - (r.review_date.t % 60)

\* Keys of timestamp_buckets in insertion order.
RECURSIVE BucketKeys(_, _, _)
BucketKeys(rs, i, keys) ==
    IF i > Len(rs) THEN keys
    ELSE IF HasTimestamp(rs[i])
            /\ ~\E k \in 1..Len(keys) : keys[k] = minute_timestamp(rs[i])
         THEN BucketKeys(rs, i + 1, Append(keys, minute_timestamp(rs[i])))
         ELSE BucketKeys(rs, i + 1, keys)

\* timestamp_buckets[key]: the ids of its reviews, in list order.
Bucket(rs, key) ==
    SelectSeq([i \in 1..Len(rs) |-> i],
              LAMBDA i : HasTimestamp(rs[i]) /\ minute_timestamp(rs[i]) = key)

\* `if len(reviews_in_bucket) >= self.min_cluster_size`
IsCluster(ids) == Len(ids) >= min_cluster_size

clusters(rs) ==
    LET keys == SelectSeq(BucketKeys(rs, 1, <<>>), LAMBDA key : IsCluster(Bucket(rs, key)))
    IN  [k \in 1..Len(keys) |->
            [timestamp |-> keys[k], count |-> Len(Bucket(rs, keys[k])),
             review_ids |-> Bucket(rs, keys[k])]]

RECURSIVE SumCounts(_, _)
SumCounts(cs, k) == IF k > Len(cs) THEN 0 ELSE cs[k].count + SumCounts(cs, k + 1)

\* sorted(seq, key=..., reverse=True): descending by key, equal keys keep
\* their order (insertion sort, each element after its equals).
RECURSIVE SortedDesc(_, _, _)
SortedDesc(q, key, acc) ==
    IF q = <<>> THEN acc
    ELSE LET x == Head(q)
             before == SelectSeq(acc, LAMBDA y : key[y] >= key[x])
             after == SelectSeq(acc, LAMBDA y : key[y] < key[x])
         IN  SortedDesc(Tail(q), key, before \o <<x>> \o after)

\* key=lambda c: c['count']
ClusterCount(cs) == [c \in {cs[k] : k \in 1..Len(cs)} |-> c.count]

\* max(clusters, key=count): the first cluster of the largest count.
MaxCluster(cs) ==
    cs[CHOOSE k \in 1..Len(cs) :
          /\ \A m \in 1..Len(cs) : cs[m].count <= cs[k].count
          /\ \A m \in 1..(k - 1) : cs[m].count < cs[k].count]

\* score = (reviews_in_clusters / len(reviews)) * 100, capped at 100.
TimingScore(cs, n) == RMin(<<100 * SumCounts(cs, 1), n>>, <<100, 1>>)

\* TimingAnalysisRule.analyze; it does not raise on these rows.
TimingAnalysisAnalyze(rs) ==
    IF Len(rs) < 2 THEN Insufficient
    ELSE LET cs == clusters(rs)
         IN  [score |-> TimingScore(cs, Len(rs)),
              flagged_items |-> Head10(SortedDesc(cs, ClusterCount(cs), <<>>)),
              reasoning |-> IF Len(cs) = 0
                              THEN Reasoning("no_clusters", 0, 0, 0)
                              ELSE Reasoning("found_clusters", Len(cs),
                                             MaxCluster(cs).count,
                                             MaxCluster(cs).timestamp)]

\* ---------------------------------------------------------------- FraudDetector

RuleNames == {"TextSimilarityRule", "TimingAnalysisRule"}

\* FraudDetector.__init__: self.rules, by rule.get_name().
EnabledRules == <<"TextSimilarityRule", "TimingAnalysisRule">>

\* rule.analyze(reviews, business_data) raises.
RuleRaises(rule_name, rs, broken) ==
    \/ rule_name \in broken
    \/ rule_name = "TextSimilarityRule" /\ TextSimilarityRaises(rs)

\* rule.analyze(reviews, business_data) returns.
RuleAnalyze(rule_name, rs) ==
    IF rule_name = "TextSimilarityRule" THEN TextSimilarityAnalyze(rs)
    ELSE TimingAnalysisAnalyze(rs)

\* results[rule_name] = outcome
Put(results, rule_name, outcome) ==
    Append(results, [name |-> rule_name, outcome |-> outcome])

ErrorOutcome ==
    [score |-> <<0, 1>>, flagged_items |-> <<>>,
     reasoning |-> Reasoning("error", 0, 0, 0)]

\* The except branch of analyze_business: the rule's entry is the error outcome.
OnRuleErrorDrop(results, rule_name) == results
OnRuleError(results, rule_name) == Put(results, rule_name, ErrorOutcome)

\* ---------------------------------------------------------------- FraudScorer

\* FraudScorer.WEIGHTS, in tenths: 0.6 and 0.4.
WEIGHTS_Stale ==
    [n \in {"TextSimilarityRule", "TimingAnalysisRule", "EmojiDensityRule"} |->
        IF n = "TextSimilarityRule" THEN 5 ELSE IF n = "TimingAnalysisRule" THEN 3 ELSE 2]
WEIGHTS ==
    [n \in {"TextSimilarityRule", "TimingAnalysisRule"} |->
        IF n = "TextSimilarityRule" THEN 6 ELSE 4]

\* self.WEIGHTS.get(rule_name, 0)
WeightOf(rule_name) == IF rule_name \in DOMAIN WEIGHTS THEN WEIGHTS[rule_name] ELSE 0

\* contribution = score * weight
Contribution(score, weight) == <<score[1] * weight, score[2] * 10>>

RECURSIVE WeightedSum(_, _)
WeightedSum(rr, k) ==
    IF k > Len(rr) THEN <<0, 1>>
    ELSE RAdd(Contribution(rr[k].outcome.score, WeightOf(rr[k].name)),
              WeightedSum(rr, k + 1))

\* breakdown[rule_name] = {score, weight, contribution, reasoning}
Breakdown(rr) ==
    [k \in 1..Len(rr) |->
        [name |-> rr[k].name,
         score |-> RoundTenths(rr[k].outcome.score),
         weight |-> WeightOf(rr[k].name),
         contribution |-> RoundTenths(Contribution(rr[k].outcome.score, WeightOf(rr[k].name))),
         reasoning |-> rr[k].outcome.reasoning]]

\* key=lambda x: x[1]['contribution']
BreakdownContribution(breakdown) ==
    [b \in {breakdown[k] : k \in 1..Len(breakdown)} |-> b.contribution]

\* `if data['score'] > 10`, on the rounded score of the breakdown.
IsSignificantFrom10(score_tenths) == score_tenths >= 100
IsSignificant(score_tenths) == score_tenths > 100

NoIndicators == "No significant fraud indicators detected"

\* The reasoning list: a line per significant rule, by descending
\* contribution; a line is written as the name of its rule.
ScorerReasoning(breakdown) ==
    LET sorted_rules == SortedDesc(breakdown, BreakdownContribution(breakdown), <<>>)
        lines == SelectSeq(sorted_rules, LAMBDA b : IsSignificant(b.score))
    IN  IF Len(lines) = 0 THEN <<NoIndicators>>
        ELSE [k \in 1..Len(lines) |-> lines[k].name]

\* FraudScorer._get_risk_level, on a score in tenths.
get_risk_level_exclusive(score) ==
    IF score > 750 THEN "HIGH"
    ELSE IF score > 500 THEN "MEDIUM"
    ELSE IF score > 250 THEN "LOW"
    ELSE "MINIMAL"
get_risk_level(score) ==
    IF score >= 750 THEN "HIGH"
    ELSE IF score >= 500 THEN "MEDIUM"
    ELSE IF score >= 250 THEN "LOW"
    ELSE "MINIMAL"

\* overall_score = round(weighted_sum, 1)
OverallTruncated(weighted_sum) == (10 * weighted_sum[1]) \div weighted_sum[2]
Overall(weighted_sum) == RoundTenths(weighted_sum)

\* FraudScorer.calculate_score
calculate_score(rr) ==
    LET overall_score == Overall(WeightedSum(rr, 1))
    IN  [overall_score |-> overall_score,
         risk_level |-> get_risk_level(overall_score),
         breakdown |-> Breakdown(rr),
         reasoning |-> ScorerReasoning(Breakdown(rr))]

NoScore ==
    [overall_score |-> 0, risk_level |-> "none", breakdown |-> <<>>, reasoning |-> <<>>]

\* ---------------------------------------------------------------- the analysis

\* Rule scores handed to calculate_score directly.
ScoreSamples ==
    { <<0, 1>>, <<10, 1>>, <<1004, 100>>, <<101, 10>>, <<167, 10>>, <<249, 10>>,
      <<2496, 100>>, <<25, 1>>, <<251, 10>>, <<499, 10>>, <<50, 1>>, <<200, 3>>,
      <<749, 10>>, <<7496, 100>>, <<75, 1>>, <<100, 1>> }

GivenOutcome(score) ==
    [score |-> score, flagged_items |-> <<>>, reasoning |-> Reasoning("given", 0, 0, 0)]

\* Outcome mappings with an entry for each enabled rule, in either order.
DirectMappings ==
    { <<[name |-> a, outcome |-> GivenOutcome(s1)], [name |-> b, outcome |-> GivenOutcome(s2)]>> :
        <<a, b, s1, s2>> \in
            {q \in RuleNames \X RuleNames \X ScoreSamples \X ScoreSamples : q[1] # q[2]} }

ScoreInit ==
    /\ apc = "idle"
    /\ rules = EnabledRules
    /\ stored_reviews = <<>>
    /\ failing = {}
    /\ rule_idx = 0
    /\ origin = "none"
    /\ rule_results = <<>>
    /\ final_score = NoScore

\* app.analyze: `rule_results = detector.analyze_business(reviews_from_db, ...)`
\* is called with the rows read back from the store; `results = {}`.
AnalyzeBusiness ==
    /\ apc = "idle"
    /\ \E rs \in StoredLists, broken \in SUBSET RuleNames :
          /\ stored_reviews' = rs
          /\ failing' = broken
    /\ origin' = "detector"
    /\ rule_results' = <<>>
    /\ rule_idx' = 1
    /\ apc' = "rules"
    /\ UNCHANGED <<rules, final_score>>
    /\ UNCHANGED <<scrapeVars, extractVars, flowVars, parseVars, otherVars>>

\* A rule that takes the first review off the list it is given.
PopsFirst(rule_name, rs) == IF rs = <<>> THEN rs ELSE Tail(rs)

\* The list `reviews` as rule.analyze leaves it: both rules read the list and
\* its dicts with get() and build lists and dicts of their own.
ReviewsAfterAnalyze(rule_name, rs) == rs

\* The dict `rule_results` as calculate_score leaves it: the loop reads
\* items() and fills `breakdown`; sorted() returns a new list.
OutcomesAfterScore(rr) == rr

\* `for rule in self.rules:` one more rule, or `return results`.
AfterRule == IF rule_idx < Len(rules) THEN "rules" ELSE "score"

\* `result = rule.analyze(reviews, business_data); results[rule_name] = result`
RunRule ==
    /\ apc = "rules"
    /\ ~RuleRaises(rules[rule_idx], stored_reviews, failing)
    /\ rule_results' = Put(rule_results, rules[rule_idx],
                           RuleAnalyze(rules[rule_idx], stored_reviews))
    /\ rule_idx' = rule_idx + 1
    /\ apc' = AfterRule
    /\ stored_reviews' = ReviewsAfterAnalyze(rules[rule_idx], stored_reviews)
    /\ UNCHANGED <<rules, failing, origin, final_score>>
    /\ UNCHANGED <<scrapeVars, extractVars, flowVars, parseVars, otherVars>>

\* `except Exception as e:` the rule raised.
RuleFails ==
    /\ apc = "rules"
    /\ RuleRaises(rules[rule_idx], stored_reviews, failing)
    /\ rule_results' = OnRuleError(rule_results, rules[rule_idx])
    /\ rule_idx' = rule_idx + 1
    /\ apc' = AfterRule
    /\ stored_reviews' = ReviewsAfterAnalyze(rules[rule_idx], stored_reviews)
    /\ UNCHANGED <<rules, failing, origin, final_score>>
    /\ UNCHANGED <<scrapeVars, extractVars, flowVars, parseVars, otherVars>>

\* calculate_score called on an outcome mapping given by the caller.
ScoreGiven ==
    /\ apc = "idle"
    /\ rule_results' \in DirectMappings
    /\ origin' = "direct"
    /\ apc' = "score"
    /\ UNCHANGED <<rules, stored_reviews, failing, rule_idx, final_score>>
    /\ UNCHANGED <<scrapeVars, extractVars, flowVars, parseVars, otherVars>>

\* `final_score = scorer.calculate_score(rule_results)`
CalculateScore ==
    /\ apc = "score"
    /\ final_score' = calculate_score(rule_results)
    /\ rule_results' = OutcomesAfterScore(rule_results)
    /\ apc' = "done"
    /\ UNCHANGED <<rules, stored_reviews, failing, rule_idx, origin>>
    /\ UNCHANGED <<scrapeVars, extractVars, flowVars, parseVars, otherVars>>

\* ================================================================ Part 3
\* ---------------------------------------------------------------- texts and patterns

\* A text is a sequence of tokens: "bs" a backslash, "d" and "s" the letters,
\* "digit" a decimal digit, "sp" a blank, "comma", and whole words.
Absent == "absent"

\* text_content() or get_attribute() returned None.
NoneValue == <<"None">>

\* re.search(r'(\\d+) star', rating_aria): in a raw string `\\` is a literal
\* backslash, so the pattern is: backslash, one or more "d", blank, "star".
\* The group, or <<>> when nothing matches.
RatingGroup(label) ==
    LET hits == {p \in (1..Len(label)) \X (1..Len(label)) :
                    /\ p[1] < p[2]
                    /\ label[p[1]] = "bs"
                    /\ \A k \in (p[1] + 1)..p[2] : label[k] = "d"
                    /\ p[2] + 2 <= Len(label)
                    /\ label[p[2] + 1] = "sp"
                    /\ label[p[2] + 2] = "star"}
    IN  IF hits = {} THEN <<>>
        ELSE LET p == CHOOSE q \in hits : \A r \in hits :
                          q[1] < r[1] \/ (q[1] = r[1] /\ q[2] >= r[2])
             IN  SubSeq(label, p[1], p[2])

\* re.search(r'([\\d,]+)\\s+review', profile_text): one or more of backslash,
\* "d", comma; then a backslash, one or more "s", and "review".
ReviewsGroup(profile_text) ==
    LET n == Len(profile_text)
        hits == {p \in (1..n) \X (1..n) :
                    /\ p[1] <= p[2]
                    /\ \A k \in p[1]..p[2] : profile_text[k] \in {"bs", "d", "comma"}
                    /\ p[2] + 1 <= n /\ profile_text[p[2] + 1] = "bs"
                    /\ \E e \in (p[2] + 2)..(n - 1) :
                          /\ \A k \in (p[2] + 2)..e : profile_text[k] = "s"
                          /\ profile_text[e + 1] = "review"}
    IN  IF hits = {} THEN <<>>
        ELSE LET p == CHOOSE q \in hits : \A r \in hits :
                          q[1] < r[1] \/ (q[1] = r[1] /\ q[2] >= r[2])
             IN  SubSeq(profile_text, p[1], p[2])

\* The unit words of the pattern, in the order of its alternation.
Units == <<"second", "minute", "hour", "day", "week", "month", "year">>
UnitWords == {Units[k] : k \in 1..Len(Units)}

\* re.search(r'(\\d+)\\s+(second|...|year)', text): backslash, one or more
\* "d", backslash, one or more "s", a unit word. The leftmost match, its
\* groups taken greedily: <<start of group 1, end of group 1, place of the unit>>.
TimeMatch(text) ==
    LET n == Len(text)
        hits == {p \in (1..n) \X (1..n) \X (1..n) :
                    /\ p[1] < p[2] /\ p[2] + 2 <= p[3] - 1
                    /\ text[p[1]] = "bs"
                    /\ \A k \in (p[1] + 1)..p[2] : text[k] = "d"
                    /\ text[p[2] + 1] = "bs"
                    /\ \A k \in (p[2] + 2)..(p[3] - 1) : text[k] = "s"
                    /\ text[p[3]] \in UnitWords}
    IN  IF hits = {} THEN <<>>
        ELSE CHOOSE q \in hits : \A r \in hits :
                 q[1] < r[1] \/ (q[1] = r[1] /\ q[2] >= r[2])

\* match.group(1) and match.group(2)
TimeGroup(text) ==
    IF TimeMatch(text) = <<>> THEN <<>>
    ELSE SubSeq(text, TimeMatch(text)[1], TimeMatch(text)[2])
TimeUnit(text) == text[TimeMatch(text)[3]]

\* int(s) returns: s is digits only (commas are removed by the caller).
DigitChars == <<"1", "2", "3", "4", "5", "6", "7", "8", "9">>
IsInt(s) ==
    Len(s) > 0 /\ \A k \in 1..Len(s) :
        s[k] = "digit" \/ \E d \in 1..Len(DigitChars) : s[k] = DigitChars[d]

\* int(s) of a string of the digits 1 to 9.
RECURSIVE IntOf(_)
IntOf(s) ==
    IF s = <<>> THEN 0
    ELSE 10 * IntOf(SubSeq(s, 1, Len(s) - 1))
         + (CHOOSE d \in 1..Len(DigitChars) : s[Len(s)] = DigitChars[d])

WithoutCommas(s) == SelectSeq(s, LAMBDA c : c # "comma")

\* What a locator's text_content() or get_attribute() can be.
RatingLabels ==
    { <<"digit", "sp", "star", "s">>,               \* "5 stars"
      <<"bs", "d", "sp", "star">>,                  \* "\d star"
      <<"word">>, <<>> }
ProfileTexts ==
    { <<"digit", "comma", "digit", "sp", "review", "s">>,   \* "1,234 reviews"
      <<"digit", "sp", "review">>,                          \* "7 review"
      <<"comma", "bs", "s", "review">>,                     \* ",\sreview"
      <<"word">> }
TimeTexts ==
    { <<"digit", "sp", "week", "s", "sp">>,         \* "2 weeks ago"
      <<"bs", "d", "bs", "s", "week">>,             \* "\d\sweek"
      <<"word">> }

\* What an awaited locator call comes to: it raises, it matches nothing, or
\* it hands over an element.
LocatorOutcomes == {"raises", "None", "found"}

\* text.lower(): the capitalised words of the texts, lowered.
Lower(text) ==
    [k \in 1..Len(text) |->
        IF text[k] = "Ago" THEN "ago"
        ELSE IF \E u \in 1..Len(Units) : text[k] = <<"Second", "Minute", "Hour", "Day",
                                                      "Week", "Month", "Year">>[u]
             THEN Units[CHOOSE u \in 1..Len(Units) :
                          text[k] = <<"Second", "Minute", "Hour", "Day",
                                      "Week", "Month", "Year">>[u]]
        ELSE text[k]]

\* The timedelta of the if / elif chain, in seconds.
Delta(amount, unit) ==
    IF unit = "second" THEN amount
    ELSE IF unit = "minute" THEN amount * 60
    ELSE IF unit = "hour" THEN amount * 3600
    ELSE IF unit = "day" THEN amount * 86400
    ELSE IF unit = "week" THEN amount * 7 * 86400
    ELSE IF unit = "month" THEN (amount * 30) * 86400
    ELSE IF unit = "year" THEN (amount * 365) * 86400
    ELSE 0

\* _parse_relative_time(timestamp_text): whether it raises, and how many
\* seconds before `now` the instant it returns lies.
parse_relative_time(text) ==
    IF text = NoneValue THEN [raises |-> TRUE, ago |-> 0]          \* None.lower()
    ELSE IF TimeMatch(Lower(text)) = <<>>
         THEN [raises |-> FALSE, ago |-> 0]                        \* `if not match: return now`
    ELSE IF ~IsInt(TimeGroup(Lower(text)))
         THEN [raises |-> TRUE, ago |-> 0]                         \* int(match.group(1))
    ELSE [raises |-> FALSE,
          ago |-> Delta(IntOf(TimeGroup(Lower(text))), TimeUnit(Lower(text)))]

\* A character is its code point. `'\\u0590' <= c`: c against a string of six
\* characters that begins with a backslash (code point 92): a one-character
\* string is below it when it is the backslash itself, a proper prefix, or
\* any character below the backslash.
AtLeastLowerEnd(c) == c > 92
\* `c <= '\\u05FF'`
AtMostUpperEnd(c) == c <= 92

\* sum(1 for c in text if '\\u0590' <= c <= '\\u05FF')
hebrew_chars(text) ==
    Len(SelectSeq(text, LAMBDA c : AtLeastLowerEnd(c) /\ AtMostUpperEnd(c)))

\* _detect_language(text): (hebrew_chars / total_chars) > 0.3; the quotient
\* of a division is the double nearest to it, as the literal 0.3 is to 3/10,
\* so the comparison is that of the fractions.
detect_language(text) ==
    IF text = <<>> THEN "en"                                \* `if not text`
    ELSE IF Len(text) > 0 /\ 10 * hebrew_chars(text) > 3 * Len(text) THEN "he"
    ELSE "en"

\* The characters of the texts a review element carries; None and '' both
\* fail `if not text`.
CharsOf(text) ==
    IF text = "Great place" THEN <<71, 114, 101, 97, 116, 32, 112, 108, 97, 99, 101>>
    ELSE <<>>

\* ---------------------------------------------------------------- _extract_review_data

\* review_data = {}
EmptyRecord ==
    [reviewer_name |-> Absent, rating |-> Absent, text |-> Absent, timestamp |-> Absent,
     reviewer_total_reviews |-> Absent, language |-> Absent]

ExtractInit ==
    /\ xpc = "idle"
    /\ review_data = EmptyRecord
    /\ store_outcome = "none"

\* `for elem in review_elements[last_count:]: review_data = await
\* self._extract_review_data(elem)`; `review_data = {}`.
ExtractReviewData ==
    /\ xpc = "idle"
    /\ review_data' = EmptyRecord
    /\ xpc' = "name"
    /\ UNCHANGED store_outcome
    /\ UNCHANGED <<scrapeVars, scoreVars, flowVars, parseVars, otherVars>>

\* "Extract reviewer name": the key is set from the element's text, or to
\* 'Unknown' by the except clause; with no element it is not set.
ExtractReviewerName ==
    /\ xpc = "name"
    /\ \E name_elem \in LocatorOutcomes, content \in {"raises", "None", "Dana"} :
          review_data' = [review_data EXCEPT !.reviewer_name =
              IF name_elem = "raises" THEN "Unknown"
              ELSE IF name_elem = "None" THEN @
              ELSE IF content = "raises" THEN "Unknown"
              ELSE content]
    /\ xpc' = "rating"
    /\ UNCHANGED store_outcome
    /\ UNCHANGED <<scrapeVars, scoreVars, flowVars, parseVars, otherVars>>

\* "Extract rating": set by int(rating_match.group(1)), or to 5 by the except
\* clause; not set with no element, no aria-label or no match.
ExtractRating ==
    /\ xpc = "rating"
    /\ \E rating_elem \in LocatorOutcomes,
          rating_aria \in RatingLabels \cup {NoneValue, <<"raises">>} :
          review_data' = [review_data EXCEPT !.rating =
              IF rating_elem = "raises" THEN "5"
              ELSE IF rating_elem = "None" THEN @
              ELSE IF rating_aria = <<"raises">> THEN "5"
              ELSE IF rating_aria = NoneValue \/ rating_aria = <<>> THEN @
              ELSE IF RatingGroup(rating_aria) = <<>> THEN @
              ELSE IF IsInt(RatingGroup(rating_aria)) THEN "extracted"
              ELSE "5"]
    /\ xpc' = "text"
    /\ UNCHANGED store_outcome
    /\ UNCHANGED <<scrapeVars, scoreVars, flowVars, parseVars, otherVars>>

\* "Extract review text": the "More" button, then the text element; '' with
\* no element and in the except clause.
ExtractText ==
    /\ xpc = "text"
    /\ \E more_button \in LocatorOutcomes, click \in {"raises", "done"},
          text_elem \in LocatorOutcomes, content \in {"raises", "None", "Great place"} :
          review_data' = [review_data EXCEPT !.text =
              IF more_button = "raises" THEN ""
              ELSE IF more_button = "found" /\ click = "raises" THEN ""
              ELSE IF text_elem = "raises" THEN ""
              ELSE IF text_elem = "None" THEN ""
              ELSE IF content = "raises" THEN ""
              ELSE content]
    /\ xpc' = "timestamp"
    /\ UNCHANGED store_outcome
    /\ UNCHANGED <<scrapeVars, scoreVars, flowVars, parseVars, otherVars>>

\* "Extract timestamp": _parse_relative_time of the element's text, or
\* datetime.now() in the except clause; not set with no element.
ExtractTimestamp ==
    /\ xpc = "timestamp"
    /\ \E time_elem \in LocatorOutcomes,
          timestamp_text \in TimeTexts \cup {NoneValue, <<"raises">>} :
          review_data' = [review_data EXCEPT !.timestamp =
              IF time_elem = "raises" THEN "now"
              ELSE IF time_elem = "None" THEN @
              ELSE IF timestamp_text = <<"raises">> THEN "now"
              ELSE IF parse_relative_time(timestamp_text).raises THEN "now"
              ELSE IF parse_relative_time(timestamp_text).ago = 0 THEN "now"
              ELSE "now - delta"]
    /\ xpc' = "total"
    /\ UNCHANGED store_outcome
    /\ UNCHANGED <<scrapeVars, scoreVars, flowVars, parseVars, otherVars>>

\* "Extract reviewer total reviews": every branch sets the key: the number of
\* the profile popup, or 1.
ExtractReviewerTotal ==
    /\ xpc = "total"
    /\ \E reviewer_button \in LocatorOutcomes, click \in {"raises", "done"},
          profile_reviews_elem \in LocatorOutcomes,
          profile_text \in ProfileTexts \cup {NoneValue, <<"raises">>} :
          review_data' = [review_data EXCEPT !.reviewer_total_reviews =
              IF reviewer_button = "raises" THEN "1"
              ELSE IF reviewer_button = "None" THEN "1"
              ELSE IF click = "raises" THEN "1"
              ELSE IF profile_reviews_elem = "raises" THEN "1"
              ELSE IF profile_reviews_elem = "None" THEN "1"
              ELSE IF profile_text = <<"raises">> THEN "1"
              ELSE IF profile_text = NoneValue THEN "1"          \* re.search(.., None)
              ELSE IF ReviewsGroup(profile_text) = <<>> THEN "1"
              ELSE IF IsInt(WithoutCommas(ReviewsGroup(profile_text))) THEN "extracted"
              ELSE "1"]
    /\ xpc' = "language"
    /\ UNCHANGED store_outcome
    /\ UNCHANGED <<scrapeVars, scoreVars, flowVars, parseVars, otherVars>>

\* `review_data['language'] = self._detect_language(review_data['text'])`;
\* `return review_data`: the record is appended to the harvested reviews.
ReturnReviewData ==
    /\ xpc = "language"
    /\ review_data' = [review_data EXCEPT !.language = detect_language(CharsOf(review_data.text))]
    /\ xpc' = "returned"
    /\ UNCHANGED store_outcome
    /\ UNCHANGED <<scrapeVars, scoreVars, flowVars, parseVars, otherVars>>

\* The keys the store step subscripts: review['reviewer_name'], review['text'],
\* review['rating'], review['timestamp'].
SubscriptedKeys(r) == {r.reviewer_name, r.text, r.rating, r.timestamp}

\* /analyze, "Save reviews": the record is read; a missing key raises
\* KeyError, which the route reports as "Error analyzing reviews".
StoreReview ==
    /\ xpc = "returned"
    /\ store_outcome' = IF Absent \in SubscriptedKeys(review_data) THEN "KeyError" ELSE "saved"
    /\ xpc' = "stored"
    /\ UNCHANGED review_data
    /\ UNCHANGED <<scrapeVars, scoreVars, flowVars, parseVars, otherVars>>

\* The next review element.
NextElement ==
    /\ xpc = "stored"
    /\ xpc' = "idle"
    /\ review_data' = EmptyRecord
    /\ store_outcome' = "none"
    /\ UNCHANGED <<scrapeVars, scoreVars, flowVars, parseVars, otherVars>>

\* ================================================================ Part 4
\* ---------------------------------------------------------------- /analyze and scrape_business

\* The business_data dict of _extract_business_info as first assigned.
InitialBusinessData ==
    [name |-> "None", address |-> "None", category |-> "None",
     total_reviews |-> "0", average_rating |-> "0.0"]

\* What a lookup of the page can come to besides a text.
Nothing == <<"nothing">>
Raises == <<"raises">>

\* re.search(r'(\\d+\\.\\d+)', rating_text): backslash, one or more "d",
\* backslash, any character, backslash, one or more "d".
AverageGroup(rating_text) ==
    LET n == Len(rating_text)
        hits == {p \in (1..n) \X (1..n) :
                    /\ p[1] < p[2]
                    /\ rating_text[p[1]] = "bs"
                    /\ \E a \in (p[1] + 1)..(p[2] - 4) :
                          /\ \A k \in (p[1] + 1)..a : rating_text[k] = "d"
                          /\ rating_text[a + 1] = "bs"
                          /\ rating_text[a + 3] = "bs"
                          /\ \A k \in (a + 4)..p[2] : rating_text[k] = "d"}
    IN  IF hits = {} THEN <<>>
        ELSE LET p == CHOOSE q \in hits : \A r \in hits :
                          q[1] < r[1] \/ (q[1] = r[1] /\ q[2] >= r[2])
             IN  SubSeq(rating_text, p[1], p[2])

\* float(s) returns: digits, a dot, digits.
IsFloat(s) ==
    \E a \in 1..(Len(s) - 2) :
        /\ \A k \in 1..a : s[k] = "digit"
        /\ s[a + 1] = "dot"
        /\ \A k \in (a + 2)..Len(s) : s[k] = "digit"

\* re.search(r'([\\d,]+)', reviews_text): the first longest run of
\* backslash, "d" and comma.
CountGroup(reviews_text) ==
    LET n == Len(reviews_text)
        hits == {p \in (1..n) \X (1..n) :
                    /\ p[1] <= p[2]
                    /\ \A k \in p[1]..p[2] : reviews_text[k] \in {"bs", "d", "comma"}}
    IN  IF hits = {} THEN <<>>
        ELSE LET p == CHOOSE q \in hits : \A r \in hits :
                          q[1] < r[1] \/ (q[1] = r[1] /\ q[2] >= r[2])
             IN  SubSeq(reviews_text, p[1], p[2])

\* aria-label of span.ceNzKf and text of span.F7nice.
AverageLabels ==
    { <<"digit", "dot", "digit", "sp", "star", "s">>,      \* "4.5 stars"
      <<"bs", "d", "bs", "dot", "bs", "d">>,               \* "\d\.\d"
      NoneValue }
CountTexts ==
    { <<"digit", "comma", "digit", "digit">>,              \* "1,234"
      <<"digit", "digit">>,                                \* "57"
      NoneValue }

\* The number of reviews the business of the page really has, at most.
MaxTrueReviews == 2

\* The pages /analyze can be pointed at: what each lookup of the business
\* header finds there, and the reviews the business has.
Pages ==
    [name : {Nothing, Raises, <<"Cafe">>},
     average_rating : {Nothing, Raises} \cup AverageLabels,
     total_reviews : {Nothing, Raises} \cup CountTexts,
     address : {Nothing, Raises, <<"Main St 1">>, NoneValue},
     reviews : 0..MaxTrueReviews]

NoPage == [name |-> Nothing, average_rating |-> Nothing, total_reviews |-> Nothing,
           address |-> Nothing, reviews |-> 0]

NoResult == [kind |-> "none", business |-> InitialBusinessData, reviews |-> 0]
NoMessage == [kind |-> "none", detail |-> "none"]

FlowInit ==
    /\ rpc = "idle"
    /\ goto_calls = 0
    /\ the_page = NoPage
    /\ business_data = InitialBusinessData
    /\ panel = "none"
    /\ cause = "none"
    /\ scrape_result = NoResult
    /\ error_msg = NoMessage

\* /analyze: `result = asyncio.run(scrape_and_analyze(scraper, final_url))`.
Analyze ==
    /\ rpc = "idle"
    /\ \E p \in Pages : the_page' = p
    /\ rpc' = "goto"
    /\ goto_calls' = 0
    /\ business_data' = InitialBusinessData
    /\ panel' = "none" /\ cause' = "none"
    /\ scrape_result' = NoResult /\ error_msg' = NoMessage
    /\ UNCHANGED <<scrapeVars, scoreVars, extractVars, parseVars, otherVars>>

\* An exception leaves scrape_business and scrape_and_analyze; /analyze's
\* `except Exception as e` renders "Error scraping reviews: ...".
FlowRaise(what) ==
    /\ scrape_result' = [kind |-> "raised", business |-> InitialBusinessData, reviews |-> 0]
    /\ error_msg' = [kind |-> "Error scraping reviews", detail |-> what]
    /\ rpc' = "reported"

\* `await self.page.goto(url, wait_until='domcontentloaded', timeout=60000)`:
\* called once; a TimeoutError propagates.
Goto ==
    /\ rpc = "goto"
    /\ goto_calls' = goto_calls + 1
    /\ \/ /\ rpc' = "business_info"
          /\ UNCHANGED <<scrape_result, error_msg>>
       \/ /\ FlowRaise("Timeout 60000ms exceeded")
       \/ /\ FlowRaise("screenshot")              \* debug_after_load.png
    /\ UNCHANGED <<the_page, business_data, panel, cause>>
    /\ UNCHANGED <<scrapeVars, scoreVars, extractVars, parseVars, otherVars>>

\* The name selector chain: the first selector whose element hands over its
\* text sets the name; a selector that raises is skipped.
LookupName(p) ==
    IF p.name \in {Nothing, Raises} THEN "None" ELSE p.name[1]

\* "Average rating": float(rating_match.group(1)), inside try/except.
LookupAverageRating(p) ==
    IF p.average_rating \in {Nothing, Raises, NoneValue} THEN "0.0"
    ELSE IF AverageGroup(p.average_rating) = <<>> THEN "0.0"
    ELSE IF IsFloat(AverageGroup(p.average_rating)) THEN "extracted"
    ELSE "0.0"                                        \* float() raised

\* "Total reviews count": int(reviews_match.group(1).replace(',', '')).
LookupTotalReviews(p) ==
    IF p.total_reviews \in {Nothing, Raises, NoneValue} THEN "0"   \* re.search(.., None) raises
    ELSE IF CountGroup(p.total_reviews) = <<>> THEN "0"
    ELSE IF IsInt(WithoutCommas(CountGroup(p.total_reviews))) THEN "extracted"
    ELSE "0"                                          \* int() raised

\* "Address": the aria-label of the address button, None included.
LookupAddress(p) ==
    IF p.address \in {Nothing, Raises, NoneValue} THEN "None" ELSE p.address[1]

\* `business_data = await self._extract_business_info()` and the log line.
ExtractBusinessData ==
    /\ rpc = "business_info"
    /\ business_data' = [name |-> LookupName(the_page),
                         address |-> LookupAddress(the_page),
                         category |-> "None",
                         total_reviews |-> LookupTotalReviews(the_page),
                         average_rating |-> LookupAverageRating(the_page)]
    /\ rpc' = "click_tab"
    /\ UNCHANGED <<goto_calls, the_page, panel, cause, scrape_result, error_msg>>
    /\ UNCHANGED <<scrapeVars, scoreVars, extractVars, parseVars, otherVars>>

\* _click_reviews_tab: the selector list, then the scan of all clickable
\* elements; `return False` when neither clicks anything.  Nothing it does
\* propagates.
LocateReviewsPanel ==
    /\ rpc = "click_tab"
    /\ \E how \in {"selector", "text_scan", "not_found"} : panel' = how
    /\ rpc' = "after_click"
    /\ UNCHANGED <<goto_calls, the_page, business_data, cause, scrape_result, error_msg>>
    /\ UNCHANGED <<scrapeVars, scoreVars, extractVars, parseVars, otherVars>>

\* scrape_business after Method 1: with `clicked` False (or the block having
\* raised) "Method 2" scrolls the window; then _sort_by_newest, both inside
\* try/except; then `reviews = await self._scrape_all_reviews()`.
ProceedToHarvest ==
    /\ rpc = "after_click"
    /\ rpc' = "harvest"
    /\ UNCHANGED <<goto_calls, the_page, business_data, panel, cause, scrape_result, error_msg>>
    /\ UNCHANGED <<scrapeVars, scoreVars, extractVars, parseVars, otherVars>>

\* _scrape_all_reviews and the return of scrape_business: the empty list
\* with no container or no matching review-element selector, else what the
\* loop harvested; a business without reviews has no review elements.
Harvest ==
    /\ rpc = "harvest"
    /\ \/ /\ \E why \in {"no_container", "no_selector"} : cause' = why
          /\ scrape_result' = [kind |-> "returned", business |-> business_data, reviews |-> 0]
          /\ rpc' = "validate"
          /\ UNCHANGED error_msg
       \/ /\ the_page.reviews > 0
          /\ \E n \in 0..the_page.reviews :
                scrape_result' = [kind |-> "returned", business |-> business_data, reviews |-> n]
          /\ cause' = "harvested"
          /\ rpc' = "validate"
          /\ UNCHANGED error_msg
       \/ /\ FlowRaise("screenshot")
          /\ UNCHANGED cause
    /\ UNCHANGED <<goto_calls, the_page, business_data, panel>>
    /\ UNCHANGED <<scrapeVars, scoreVars, extractVars, parseVars, otherVars>>

\* /analyze, "VALIDATION": `if 'reviews' not in result or
\* len(result['reviews']) == 0` renders "No reviews found. Business data:
\* <name>"; otherwise the reviews go on to be saved.
ValidationMessage(result) ==
    IF result.reviews = 0
    THEN [kind |-> "No reviews found", detail |-> result.business.name]
    ELSE NoMessage

Validate ==
    /\ rpc = "validate"
    /\ error_msg' = ValidationMessage(scrape_result)
    /\ rpc' = "reported"
    /\ UNCHANGED <<goto_calls, the_page, business_data, panel, cause, scrape_result>>
    /\ UNCHANGED <<scrapeVars, scoreVars, extractVars, parseVars, otherVars>>

\* The next request.
NextRequest ==
    /\ rpc = "reported"
    /\ rpc' = "idle"
    /\ goto_calls' = 0
    /\ the_page' = NoPage
    /\ business_data' = InitialBusinessData
    /\ panel' = "none" /\ cause' = "none"
    /\ scrape_result' = NoResult /\ error_msg' = NoMessage
    /\ UNCHANGED <<scrapeVars, scoreVars, extractVars, parseVars, otherVars>>

\* ================================================================ Part 5
\* ---------------------------------------------------------------- url_parser

\* A URL is a sequence of tokens: the scheme "https://", a host, "/", "@",
\* ",", "+", "?", "#", "&", percent escapes, numbers, words and key=value
\* pairs.
Hosts ==
    { <<"https://", "www.google.com", "/", "maps">>,
      <<"https://", "maps.google.com">>,
      <<"www.google.com", "/", "maps">>,                    \* no scheme
      <<"https://", "[google.com", "/", "maps">>,           \* unbalanced bracket
      <<"https://", "example.com">> }
ShortLinks ==
    { <<"https://", "maps.app.goo.gl", "/", "abc123">>,
      <<"https://", "goo.gl", "/", "maps", "/", "abc123">> }
Tails ==
    { <<>>,
      <<"/", "place", "/", "Coffee", "+", "Shop", "/", "@", "31.5", ",", "34.5", ",", "17z">>,
      <<"/", "place", "/", "Caf", "%C3%A9", "%20", "A", "%2B", "B">>,
      <<"/", "place", "/", "@", "31.5", ",", "34.5">>,
      <<"/", "@", "-31.5", ",", "034.50", ",", "17z">>,
      <<"/", "@", "31", ",", "34">>,
      <<"/", "place", "/">>,
      <<"/", "place", "/", "/", "place", "/", "Shop">>,
      <<"/", "search">> }
Queries ==
    { <<>>,
      <<"?", "ftid=0x1">>,
      <<"?", "cid=42", "&", "ftid=0x1">>,
      <<"?", "cid=42", "&", "ftid=">>,
      <<"?", "q=", "/", "place", "/", "Shop">>,
      <<"?", "ref=", "maps.google.com">>,
      <<"#", "/", "@", "31.5", ",", "34.5">> }

\* An argument that is not a str.
NotAString == <<"not a str">>

\* The inputs of parse_google_maps_url.
UrlSamples == {h \o t \o q : h \in Hosts \cup ShortLinks, t \in Tails, q \in Queries}

\* What follow_redirect(url) comes to: it raises, or response.url.
RedirectOutcomes ==
    { <<"raises">> }
    \cup {<<"https://", "www.google.com", "/", "maps">> \o t : t \in Tails}
    \cup { <<"https://", "example.com", "/", "place", "/", "Shop">>,
           <<"https://", "[google.com", "/", "maps">> }

\* follow_redirect answers with the HEAD response alone.
HeadOnly(head, get) == head

\* follow_redirect(url): response.url of the HEAD request, of the GET request
\* when HEAD raised, and the HEAD exception raised again when GET raised too.
follow_redirect(head, get) ==
    IF head # <<"raises">> THEN head ELSE get

\* The requests follow_redirect issues, each with what it came to.
Requests(head, get) ==
    IF head # <<"raises">>
    THEN <<[method |-> "HEAD", response |-> head]>>
    ELSE <<[method |-> "HEAD", response |-> head], [method |-> "GET", response |-> get]>>

\* re.search(pattern, url, re.IGNORECASE) for the five google_maps_patterns.
is_google_maps_url(u) ==
    \/ \E k \in 1..(Len(u) - 2) :                          \* google\.com/maps
          /\ u[k] \in {"www.google.com", "maps.google.com", "[google.com"}
          /\ u[k + 1] = "/"
          /\ u[k + 2] = "maps"
    \/ \E k \in 1..Len(u) : u[k] = "maps.google.com"       \* maps\.google\.com
    \/ \E k \in 1..Len(u) : u[k] \in {"goo.gl", "maps.app.goo.gl"}   \* goo\.gl
    \/ \E k \in 1..(Len(u) - 3) :                          \* google\.com/search.*maps
          /\ u[k] \in {"www.google.com", "maps.google.com", "[google.com"}
          /\ u[k + 1] = "/"
          /\ u[k + 2] = "search"
          /\ \E j \in (k + 3)..Len(u) : u[j] \in {"maps", "maps.google.com", "maps.app.goo.gl"}

\* `'goo.gl' in url or 'maps.app.goo.gl' in url`
IsShortLink(u) == \E k \in 1..Len(u) : u[k] \in {"goo.gl", "maps.app.goo.gl"}

\* urlparse(url) raises ValueError("Invalid IPv6 URL") on a host with an
\* unbalanced bracket.
UrlparseRaises(u) == Len(u) >= 2 /\ u[1] = "https://" /\ u[2] = "[google.com"

\* The first index of u from `from` on that holds one of `marks`, or Len(u) + 1.
FirstOf(u, marks, from) ==
    LET hits == {k \in from..Len(u) : u[k] \in marks}
    IN  IF hits = {} THEN Len(u) + 1 ELSE CHOOSE k \in hits : \A j \in hits : k <= j

\* urlparse(url).path: what follows scheme and host (everything, without a
\* scheme) up to the first "?" or "#".
UrlPath(u) ==
    LET start == IF Len(u) >= 1 /\ u[1] = "https://" THEN 3 ELSE 1
    IN  SubSeq(u, start, FirstOf(u, {"?", "#"}, 1) - 1)

\* urlparse(url).query: from the first "?" that precedes any "#", up to the "#".
UrlQuery(u) ==
    LET q == FirstOf(u, {"?"}, 1)
        f == FirstOf(u, {"#"}, 1)
    IN  IF q > f THEN <<>> ELSE SubSeq(u, q + 1, f - 1)

\* re.search(r'/place/([^/@]+)', path).group(1): the leftmost "/place/"
\* followed by at least one character other than "/" and "@", taken as far
\* as it goes; <<>> without a match.
PlaceGroup(path) ==
    LET n == Len(path)
        hits == {k \in 1..(n - 3) :
                    /\ path[k] = "/" /\ path[k + 1] = "place" /\ path[k + 2] = "/"
                    /\ path[k + 3] \notin {"/", "@"}}
    IN  IF hits = {} THEN <<>>
        ELSE LET k == CHOOSE h \in hits : \A j \in hits : h <= j
             IN  SubSeq(path, k + 3, FirstOf(path, {"/", "@"}, k + 3) - 1)

\* unquote(s): each percent escape becomes the character it encodes.
Unquote(tok) ==
    CASE tok = "%20" -> " "
      [] tok = "%2B" -> "+"
      [] tok = "%C3%A9" -> "e-acute"
      [] OTHER -> tok

\* .replace('+', ' ')
PlusToSpace(tok) == IF tok = "+" THEN " " ELSE tok

\* unquote(business_name).replace('+', ' ')
DecodeName(group) == [k \in 1..Len(group) |-> PlusToSpace(Unquote(group[k]))]

\* Tokens that read -?\d+\.\d+ and the float each converts to, as a fraction.
Decimals ==
    ("31.5" :> <<315, 10>>) @@ ("34.5" :> <<345, 10>>) @@
    ("-31.5" :> <<0 - 315, 10>>) @@ ("034.50" :> <<345, 10>>)

\* re.search(r'@(-?\d+\.\d+),(-?\d+\.\d+)', path).groups(); <<>> without a match.
CoordsGroups(path) ==
    LET hits == {k \in 1..(Len(path) - 3) :
                    /\ path[k] = "@"
                    /\ path[k + 1] \in DOMAIN Decimals
                    /\ path[k + 2] = ","
                    /\ path[k + 3] \in DOMAIN Decimals}
    IN  IF hits = {} THEN <<>>
        ELSE LET k == CHOOSE h \in hits : \A j \in hits : h <= j
             IN  <<path[k + 1], path[k + 3]>>

\* parse_qs(query)[key]: the values of `key`, blank values dropped.
QueryValues(query, key) ==
    SelectSeq(query, LAMBDA tok :
        \/ key = "ftid" /\ tok = "ftid=0x1"
        \/ key = "cid" /\ tok = "cid=42")

\* query_params['ftid'][0], elif query_params['cid'][0]
PlaceId(query) ==
    IF QueryValues(query, "ftid") # <<>> THEN Head(QueryValues(query, "ftid"))
    ELSE IF QueryValues(query, "cid") # <<>> THEN Head(QueryValues(query, "cid"))
    ELSE "None"

\* None, a str and a dict of two floats.
NoName == [found |-> FALSE, text |-> <<>>]
Name(text) == [found |-> TRUE, text |-> text]
NoCoordinates == [found |-> FALSE, lat |-> <<0, 1>>, lng |-> <<0, 1>>]
Coordinates(lat, lng) == [found |-> TRUE, lat |-> lat, lng |-> lng]

\* Valid only with a name and coordinates both.
ValidOnlyWithBoth(business_name, coordinates) ==
    (business_name.found /\ business_name.text # <<>>) /\ coordinates.found

\* `if result['business_name'] or result['coordinates']`: a name that is
\* neither None nor empty, or a coordinates dict.
ValidityRule(business_name, coordinates) ==
    (business_name.found /\ business_name.text # <<>>) \/ coordinates.found

\* The result dict as first assigned.
InvalidResult(u, final) ==
    [kind |-> "returned", is_valid |-> FALSE, original_url |-> u, final_url |-> final,
     business_name |-> NoName, place_id |-> "None", coordinates |-> NoCoordinates]

\* Lines 53-80: the URL taken apart.
ParseResolved(original, u) ==
    IF UrlparseRaises(u)
    THEN [InvalidResult(original, u) EXCEPT !.kind = "raises"]
    ELSE LET path == UrlPath(u)
             name == IF PlaceGroup(path) = <<>> THEN NoName
                     ELSE Name(DecodeName(PlaceGroup(path)))
             groups == CoordsGroups(path)
             coords == IF groups = <<>> THEN NoCoordinates
                       ELSE Coordinates(Decimals[groups[1]], Decimals[groups[2]])
         IN  [kind |-> "returned",
              is_valid |-> ValidityRule(name, coords),
              original_url |-> original,
              final_url |-> u,
              business_name |-> name,
              place_id |-> PlaceId(UrlQuery(u)),
              coordinates |-> coords]

\* parse_google_maps_url(url), with what follow_redirect came to.
parse_google_maps_url(u, redirect) ==
    IF u = <<>> \/ u = NotAString THEN InvalidResult(u, u)   \* not url or not isinstance(url, str)
    ELSE IF ~is_google_maps_url(u) THEN InvalidResult(u, u)
    ELSE IF IsShortLink(u)
         THEN IF redirect = <<"raises">> THEN InvalidResult(u, u)
              ELSE ParseResolved(u, redirect)
    ELSE ParseResolved(u, u)

NoParse == InvalidResult(<<>>, <<>>)

ParseInit ==
    /\ url = <<>>
    /\ redirected = <<>>
    /\ parsed = NoParse
    /\ http_requests = <<>>

\* /analyze: `parsed = parse_google_maps_url(url)`.
ParseUrl ==
    /\ url = <<>>
    /\ \E u \in UrlSamples \cup {<<>>, NotAString}, head \in RedirectOutcomes, get \in RedirectOutcomes :
          /\ url' = u
          /\ redirected' = IF IsShortLink(u) /\ is_google_maps_url(u)
                           THEN follow_redirect(head, get) ELSE <<>>
          /\ http_requests' = IF IsShortLink(u) /\ is_google_maps_url(u)
                              THEN Requests(head, get) ELSE <<>>
          /\ parsed' = parse_google_maps_url(u, follow_redirect(head, get))
    /\ UNCHANGED <<scrapeVars, scoreVars, extractVars, flowVars, otherVars>>

\* The next request with its address.
NextAddress ==
    /\ url # <<>>
    /\ url' = <<>>
    /\ redirected' = <<>>
    /\ parsed' = NoParse
    /\ http_requests' = <<>>
    /\ UNCHANGED <<scrapeVars, scoreVars, extractVars, flowVars, otherVars>>

\* ================================================================ Part 6
\* GoogleMapsScraper._parse_relative_time on the texts a review's time element carries.

MaxAmount == 4

\* "<n> <unit> ago", unit in the singular or the plural, as written or capitalised.
ShapedTime(n, unit, plural, capitals) ==
    <<DigitChars[n], "sp">>
    \o <<IF capitals
         THEN <<"Second", "Minute", "Hour", "Day", "Week", "Month", "Year">>[unit]
         ELSE Units[unit]>>
    \o (IF plural THEN <<"s">> ELSE <<>>)
    \o <<"sp", IF capitals THEN "Ago" ELSE "ago">>

ShapedTimes ==
    {ShapedTime(n, unit, plural, capitals) :
        n \in 1..MaxAmount, unit \in 1..Len(Units), plural \in BOOLEAN, capitals \in BOOLEAN}

\* Texts of another shape: "a week ago", "\d\sweek", "2weeks", "just now", "".
UnshapedTimes ==
    {<<"a", "sp", Units[unit], "sp", "ago">> : unit \in 1..Len(Units)}
    \cup {<<"bs", "d", "bs", "s", Units[unit]>> : unit \in 1..Len(Units)}
    \cup {<<DigitChars[n], Units[unit], "s">> : n \in 1..MaxAmount, unit \in 1..Len(Units)}
    \cup {<<"just", "sp", "now">>, <<"word">>}

NoTime == <<>>

TimeInit ==
    /\ time_text = NoTime
    /\ resolved = [raises |-> FALSE, ago |-> 0]

\* One call of _parse_relative_time.
ParseRelativeTime ==
    /\ time_text = NoTime
    /\ \E text \in ShapedTimes \cup UnshapedTimes :
          /\ time_text' = text
          /\ resolved' = parse_relative_time(text)
    /\ UNCHANGED <<scrapeVars, scoreVars, extractVars, flowVars, parseVars, reviewerVars, serveVars, laterVars>>

\* The next time element.
NextTimestamp ==
    /\ time_text # NoTime
    /\ time_text' = NoTime
    /\ resolved' = [raises |-> FALSE, ago |-> 0]
    /\ UNCHANGED <<scrapeVars, scoreVars, extractVars, flowVars, parseVars, reviewerVars, serveVars, laterVars>>

\* ================================================================ Part 7
\* ---------------------------------------------------------------- save_reviewer

MaxCalls == 3

\* The reviewer_data dicts save_reviewer is called with; "None" is a key
\* that is missing or None.
ReviewerData ==
    [name : {"Dana", "Eli"},
     google_id : {"None", "g1", "g2"},
     total_reviews_count : {"None", "1", "5"}]

\* SELECT id FROM reviewers WHERE google_id = ?: the ids of the rows found.
ByGoogleId(table, google_id) ==
    {k \in 1..Len(table) : table[k].google_id # "None" /\ table[k].google_id = google_id}

\* SELECT id FROM reviewers WHERE name = ? AND total_reviews_count = ?: a
\* NULL on either side of `=` matches no row.
ByNameAndCount(table, name, total_reviews_count) ==
    {k \in 1..Len(table) :
        /\ table[k].name = name
        /\ total_reviews_count # "None"
        /\ table[k].total_reviews_count # "None"
        /\ table[k].total_reviews_count = total_reviews_count}

\* cursor.fetchone()['id'] of a query without ORDER BY: the row met first.
Fetchone(ids) == CHOOSE k \in ids : \A j \in ids : k <= j

\* The id save_reviewer(conn, reviewer_data) returns.
save_reviewer(table, reviewer_data) ==
    IF /\ reviewer_data.google_id # "None"
       /\ ByGoogleId(table, reviewer_data.google_id) # {}
    THEN Fetchone(ByGoogleId(table, reviewer_data.google_id))
    ELSE IF ByNameAndCount(table, reviewer_data.name, reviewer_data.total_reviews_count) # {}
    THEN Fetchone(ByNameAndCount(table, reviewer_data.name, reviewer_data.total_reviews_count))
    ELSE Len(table) + 1                                    \* cursor.lastrowid

\* Table reviewers after the call: the INSERT, when no row was found.
ReviewersAfter(table, reviewer_data) ==
    IF save_reviewer(table, reviewer_data) <= Len(table) THEN table
    ELSE Append(table, reviewer_data)

ReviewersInit ==
    /\ reviewers = <<>>
    /\ reviewer_calls = <<>>

\* One call save_reviewer(conn, reviewer_data).
SaveReviewer ==
    /\ Len(reviewer_calls) < MaxCalls
    /\ \E reviewer_data \in ReviewerData :
          /\ reviewers' = ReviewersAfter(reviewers, reviewer_data)
          /\ reviewer_calls' = Append(reviewer_calls,
                [data |-> reviewer_data, id |-> save_reviewer(reviewers, reviewer_data)])
    /\ UNCHANGED <<scrapeVars, scoreVars, extractVars, flowVars, parseVars, timeVars, serveVars, laterVars>>

\* ================================================================ Part 8
\* ---------------------------------------------------------------- /analyze against the store

\* The development server answers each request on a thread of its own.
Workers == {1, 2}

MaxServed == 2

\* Two short links that lead to one listing, a listing given directly, and
\* an address of another site.
ShortA == <<"https://", "maps.app.goo.gl", "/", "abc123">>
ShortB == <<"https://", "goo.gl", "/", "maps", "/", "abc123">>
ResolvedShop ==
    <<"https://", "www.google.com", "/", "maps",
      "/", "place", "/", "Coffee", "+", "Shop", "/", "@", "31.5", ",", "34.5", ",", "17z">>
DirectListing ==
    <<"https://", "www.google.com", "/", "maps", "/", "place", "/", "@", "31.5", ",", "34.5">>
OtherSite == <<"https://", "example.com">>
ServeUrls == {ShortA, ShortB, DirectListing, OtherSite}

\* result['reviews'] of a scrape that returned: the reviewers of the reviews.
ScrapedLists ==
    { <<>>,
      <<[name |-> "Dana", google_id |-> "None", total_reviews_count |-> "1"],
        [name |-> "Eli", google_id |-> "None", total_reviews_count |-> "5"]>> }

\* The locals of analyze() before the request is read.
IdleRequest ==
    [pc |-> "idle", raw |-> <<>>, final_url |-> <<>>, lookup_key |-> <<>>,
     goto_url |-> <<>>, scraper |-> 0, raised |-> FALSE, result |-> <<>>, existing |-> 0,
     business_id |-> 0, reviewer_ids |-> <<>>, harvested |-> {}, response |-> "none"]

ServeInit ==
    /\ req = [w \in Workers |-> IdleRequest]
    /\ businesses = <<>>
    /\ review_rows = <<>>
    /\ analysis_results = <<>>
    /\ sessions = <<>>
    /\ served = 0

\* analyze() returned `response`: its other locals are gone.
Answered(r, response) ==
    [IdleRequest EXCEPT !.pc = "done", !.raw = r.raw, !.final_url = r.final_url,
                        !.lookup_key = r.lookup_key, !.goto_url = r.goto_url,
                        !.business_id = r.business_id, !.response = response]

\* The address as it was given.
OriginalUrl(p) == p.original_url

\* `final_url = parsed['final_url']`
FinalUrl(p) == p.final_url

\* `parsed = parse_google_maps_url(url)`; an invalid URL is answered at once.
ServeParse(w) ==
    /\ req[w].pc = "idle"
    /\ \A v \in Workers : v < w => req[v].pc # "idle"       \* the first free thread
    /\ served < MaxServed
    /\ served' = served + 1
    /\ \E u \in ServeUrls :
          LET p == parse_google_maps_url(u, ResolvedShop)
          IN  req' = [req EXCEPT ![w] =
                  IF p.is_valid
                  THEN [@ EXCEPT !.pc = "gate", !.raw = u, !.final_url = FinalUrl(p)]
                  ELSE Answered([@ EXCEPT !.raw = u], "Invalid Google Maps URL")]
    /\ UNCHANGED <<businesses, review_rows, analysis_results, sessions, reviewers>>
    /\ UNCHANGED <<scrapeVars, scoreVars, extractVars, flowVars, parseVars, timeVars, reviewer_calls, laterVars>>

\* SELECT ... FROM businesses WHERE url = ? and fetchone(): the id of the
\* row met first, 0 for None.
RowByUrl(table, u) ==
    LET ids == {k \in 1..Len(table) : table[k].url = u}
    IN  IF ids = {} THEN 0 ELSE Fetchone(ids)

\* A gate that any stored row satisfies.
AnyRowHits(table, u) == RowByUrl(table, u) # 0

\* A gate that also holds back while another request works on the address.
HitOrInFlight(table, u) ==
    \/ \E k \in 1..Len(table) : table[k].url = u /\ table[k].last_analyzed # "null"
    \/ \E v \in Workers :
          /\ req[v].pc \in {"create", "initialize", "scrape", "close", "select",
                             "upsert", "reviewers", "save_analysis", "update_time"}
          /\ req[v].final_url = u

\* `if existing_business and existing_business.get('last_analyzed')`
CacheHit(table, u) ==
    RowByUrl(table, u) # 0 /\ table[RowByUrl(table, u)].last_analyzed # "null"

\* `existing_business = get_business_by_url(conn, final_url)` and the gate:
\* the report of the stored analysis, or on to the scrape.
CacheGate(w) ==
    /\ req[w].pc = "gate"
    /\ req' = [req EXCEPT ![w] =
          IF CacheHit(businesses, req[w].final_url)
          THEN Answered([@ EXCEPT !.lookup_key = req[w].final_url,
                                   !.business_id = RowByUrl(businesses, req[w].final_url)],
                        "cached report")
          ELSE [@ EXCEPT !.pc = "create", !.lookup_key = req[w].final_url]]
    /\ UNCHANGED <<businesses, review_rows, analysis_results, sessions, served, reviewers>>
    /\ UNCHANGED <<scrapeVars, scoreVars, extractVars, flowVars, parseVars, timeVars, reviewer_calls, laterVars>>

\* One scraper object for every caller.
TheOneScraper(ss) == 1

\* `scraper = GoogleMapsScraper(headless=True)`: a new object, a local of
\* this call.
CreatedScraper(ss) == Len(ss) + 1

CreateScraper(w) ==
    /\ req[w].pc = "create"
    /\ sessions' = Append(sessions, [opened_by |-> w, state |-> "created", misused |-> FALSE])
    /\ req' = [req EXCEPT ![w].pc = "initialize", ![w].scraper = CreatedScraper(sessions)]
    /\ UNCHANGED <<businesses, review_rows, analysis_results, served, reviewers>>
    /\ UNCHANGED <<scrapeVars, scoreVars, extractVars, flowVars, parseVars, timeVars, reviewer_calls, laterVars>>

\* The scraper object after worker w did `what` to it; misused records a
\* worker other than its creator, and a page operation outside initialize
\* and close.
Touched(session, w, what) ==
    [session EXCEPT
        !.misused = @ \/ session.opened_by # w
                      \/ (what = "use" /\ session.state # "open"),
        !.state = IF what = "initialize" THEN "open"
                  ELSE IF what = "close" THEN "closed"
                  ELSE @]

\* scrape_and_analyze: `await scraper.initialize()`, which may raise.
Initialize(w) ==
    /\ req[w].pc = "initialize"
    /\ \/ /\ sessions' = [sessions EXCEPT ![req[w].scraper] = Touched(@, w, "initialize")]
          /\ req' = [req EXCEPT ![w].pc = "scrape"]
       \/ /\ sessions' = [sessions EXCEPT ![req[w].scraper] = Touched(@, w, "close")]
          /\ req' = [req EXCEPT ![w] = Answered(@, "Error scraping reviews")]
    /\ UNCHANGED <<businesses, review_rows, analysis_results, served, reviewers>>
    /\ UNCHANGED <<scrapeVars, scoreVars, extractVars, flowVars, parseVars, timeVars, reviewer_calls, laterVars>>

\* `result = await scraper.scrape_business(url)`: the navigation, queries,
\* clicks and scrolls on the scraper's page; it returns or raises.
ScrapeBusinessPage(w) ==
    /\ req[w].pc = "scrape"
    /\ sessions' = [sessions EXCEPT ![req[w].scraper] = Touched(@, w, "use")]
    /\ \/ \E result \in ScrapedLists :
             req' = [req EXCEPT ![w].pc = "close", ![w].goto_url = req[w].final_url,
                                ![w].result = result]
       \/ req' = [req EXCEPT ![w].pc = "close", ![w].goto_url = req[w].final_url,
                             ![w].raised = TRUE]
    /\ UNCHANGED <<businesses, review_rows, analysis_results, served, reviewers>>
    /\ UNCHANGED <<scrapeVars, scoreVars, extractVars, flowVars, parseVars, timeVars, reviewer_calls, laterVars>>

\* A result that always counts as holding reviews.
NeverEmpty(result) == FALSE

\* `if 'reviews' not in result or len(result['reviews']) == 0`
HasNoReviews(result) == Len(result) = 0

\* `finally: await scraper.close()`, then the validation of the result.
CloseScraper(w) ==
    /\ req[w].pc = "close"
    /\ sessions' = [sessions EXCEPT ![req[w].scraper] = Touched(@, w, "close")]
    /\ req' = [req EXCEPT ![w] =
          IF req[w].raised
          THEN Answered(@, "Error scraping reviews")
          ELSE IF HasNoReviews(req[w].result)
          THEN Answered(@, "No reviews found")
          ELSE [@ EXCEPT !.pc = "select"]]
    /\ UNCHANGED <<businesses, review_rows, analysis_results, served, reviewers>>
    /\ UNCHANGED <<scrapeVars, scoreVars, extractVars, flowVars, parseVars, timeVars, reviewer_calls, laterVars>>

\* A lookup that finds no row.
NeverFound(table, u) == 0

\* save_business: SELECT id FROM businesses WHERE url = ?, fetchone().
ExistingId(table, u) == RowByUrl(table, u)

\* `business_data['url'] = final_url`, and the SELECT of save_business.
SelectBusiness(w) ==
    /\ req[w].pc = "select"
    /\ req' = [req EXCEPT ![w].pc = "upsert",
                          ![w].existing = ExistingId(businesses, req[w].final_url)]
    /\ UNCHANGED <<businesses, review_rows, analysis_results, sessions, served, reviewers>>
    /\ UNCHANGED <<scrapeVars, scoreVars, extractVars, flowVars, parseVars, timeVars, reviewer_calls, laterVars>>

\* Column url of table businesses is a unique key: an INSERT of a url that a
\* row holds fails.
UrlIsFree(table, u) == \A k \in 1..Len(table) : table[k].url # u

\* The next id but one.
SkipsOne(table) == Len(table) + 2

\* cursor.lastrowid of the INSERT.
InsertedId(table) == Len(table) + 1

\* save_business after its SELECT: the UPDATE of the row found (last_analyzed
\* is not among the columns set), or the INSERT, commit, and the id.
UpsertBusiness(w) ==
    /\ req[w].pc = "upsert"
    /\ IF req[w].existing # 0
       THEN /\ req' = [req EXCEPT ![w].pc = "reviewers", ![w].business_id = req[w].existing]
            /\ UNCHANGED businesses
       ELSE IF UrlIsFree(businesses, req[w].final_url)
       THEN /\ req' = [req EXCEPT ![w].pc = "reviewers",
                                  ![w].business_id = InsertedId(businesses)]
            /\ businesses' = Append(businesses,
                  [url |-> req[w].final_url, last_analyzed |-> "null",
                   first_raw |-> req[w].raw])
       ELSE /\ req' = [req EXCEPT ![w] =
                         Answered(@, "Error analyzing reviews: UNIQUE constraint failed")]
            /\ UNCHANGED businesses
    /\ UNCHANGED <<review_rows, analysis_results, sessions, served, reviewers>>
    /\ UNCHANGED <<scrapeVars, scoreVars, extractVars, flowVars, parseVars, timeVars, reviewer_calls, laterVars>>

\* `reviewer_id = save_reviewer(conn, reviewer_data)` for the next review of
\* the result.
SaveOneReviewer(w) ==
    /\ req[w].pc = "reviewers"
    /\ Len(req[w].reviewer_ids) < Len(req[w].result)
    /\ LET reviewer_data == req[w].result[Len(req[w].reviewer_ids) + 1]
       IN  /\ reviewers' = ReviewersAfter(reviewers, reviewer_data)
           /\ req' = [req EXCEPT ![w].reviewer_ids =
                         Append(@, save_reviewer(reviewers, reviewer_data))]
    /\ UNCHANGED <<businesses, review_rows, analysis_results, sessions, served>>
    /\ UNCHANGED <<scrapeVars, scoreVars, extractVars, flowVars, parseVars, timeVars, reviewer_calls, laterVars>>

\* Only the tuples that no stored row equals.
UnseenTuples(business_id, reviewer_ids) ==
    SelectSeq([k \in 1..Len(reviewer_ids) |->
                  [business_id |-> business_id, reviewer_id |-> reviewer_ids[k]]],
              LAMBDA t : \A k \in 1..Len(review_rows) : review_rows[k] # t)

\* On from the bulk insert to the timestamp.
ThenUpdateTime == "update_time"

\* save_reviews is followed by the detector, the scorer and
\* save_analysis_results; update_business_analyzed_time comes after them.
ThenSaveAnalysis == "save_analysis"

\* review_tuples of save_reviews.
ReviewTuples(business_id, reviewer_ids) ==
    [k \in 1..Len(reviewer_ids) |->
        [business_id |-> business_id, reviewer_id |-> reviewer_ids[k]]]

\* `save_reviews(conn, business_id, reviews_to_save)`: executemany and commit.
SaveReviews(w) ==
    /\ req[w].pc = "reviewers"
    /\ Len(req[w].reviewer_ids) = Len(req[w].result)
    /\ review_rows' = review_rows \o ReviewTuples(req[w].business_id, req[w].reviewer_ids)
    /\ req' = [req EXCEPT ![w].pc = ThenSaveAnalysis,
                          ![w].harvested = (Len(review_rows) + 1)..Len(review_rows')]
    /\ UNCHANGED <<businesses, analysis_results, sessions, served, reviewers>>
    /\ UNCHANGED <<scrapeVars, scoreVars, extractVars, flowVars, parseVars, timeVars, reviewer_calls, laterVars>>

\* SELECT ... FROM reviews r JOIN reviewers rv ... WHERE r.business_id = ?:
\* the ids of the rows read (every reviewer_id names a reviewer row).
get_reviews_by_business(table, business_id) ==
    {k \in 1..Len(table) : table[k].business_id = business_id}

\* The reviews of the scrape as they are in memory.
HarvestedInMemory(r, table) == r.harvested

\* `reviews_from_db = get_reviews_by_business(conn, business_id)`
ReviewsFromDb(r, table) == get_reviews_by_business(table, r.business_id)

\* The detector over reviews_from_db and the scorer, then
\* `save_analysis_results(conn, business_id, ...)`.  The row notes what the
\* detector was given, which rows the request had inserted, and how many
\* rows the table held.
SaveAnalysisResults(w) ==
    /\ req[w].pc = "save_analysis"
    /\ analysis_results' = Append(analysis_results,
          [business_id |-> req[w].business_id,
           scored |-> ReviewsFromDb(req[w], review_rows),
           harvested |-> req[w].harvested,
           stored_then |-> Len(review_rows)])
    /\ req' = [req EXCEPT ![w].pc = "update_time"]
    /\ UNCHANGED <<businesses, review_rows, sessions, served, reviewers>>
    /\ UNCHANGED <<scrapeVars, scoreVars, extractVars, flowVars, parseVars, timeVars, reviewer_calls, laterVars>>

\* `update_business_analyzed_time(conn, business_id)`, close, and the
\* redirect to the report.
UpdateAnalyzedTime(w) ==
    /\ req[w].pc = "update_time"
    /\ businesses' = [businesses EXCEPT ![req[w].business_id].last_analyzed = "fresh"]
    /\ req' = [req EXCEPT ![w] = Answered(@, "report")]
    /\ UNCHANGED <<review_rows, analysis_results, sessions, served, reviewers>>
    /\ UNCHANGED <<scrapeVars, scoreVars, extractVars, flowVars, parseVars, timeVars, reviewer_calls, laterVars>>

\* A statement of the store raises (the database is locked, the disk is
\* full): `except Exception as e` answers; what was committed stays.
StoreRaises(w) ==
    /\ req[w].pc \in {"upsert", "reviewers", "save_analysis", "update_time"}
    /\ req' = [req EXCEPT ![w] = Answered(@, "Error analyzing reviews")]
    /\ UNCHANGED <<businesses, review_rows, analysis_results, sessions, served, reviewers>>
    /\ UNCHANGED <<scrapeVars, scoreVars, extractVars, flowVars, parseVars, timeVars, reviewer_calls, laterVars>>

\* The response is sent; the thread takes the next request.
Respond(w) ==
    /\ req[w].pc = "done"
    /\ served < MaxServed
    /\ req' = [req EXCEPT ![w] = IdleRequest]
    /\ UNCHANGED <<businesses, review_rows, analysis_results, sessions, served, reviewers>>
    /\ UNCHANGED <<scrapeVars, scoreVars, extractVars, flowVars, parseVars, timeVars, reviewer_calls, laterVars>>

\* Time passes: every analysis made becomes older than CACHE_DURATION_HOURS.
Elapse ==
    /\ \E k \in 1..Len(businesses) : businesses[k].last_analyzed = "fresh"
    /\ businesses' = [k \in 1..Len(businesses) |->
          IF businesses[k].last_analyzed = "fresh"
          THEN [businesses[k] EXCEPT !.last_analyzed = "stale"]
          ELSE businesses[k]]
    /\ UNCHANGED <<req, review_rows, analysis_results, sessions, served, reviewers>>
    /\ UNCHANGED <<scrapeVars, scoreVars, extractVars, flowVars, parseVars, timeVars, reviewer_calls, laterVars>>

\* ================================================================ Part 9
\* ---------------------------------------------------------------- _detect_language

MaxChars == 10

\* The characters the texts are made of: alef, "a", the backslash, a space.
OtherChars == {97, 92, 32}

\* A text of `hebrew` alefs followed by `others` times the character c.
TextOf(hebrew, others, c) ==
    [k \in 1..(hebrew + others) |-> IF k <= hebrew THEN 1488 ELSE c]

LanguageTexts ==
    {TextOf(hebrew, others, c) :
        hebrew \in 0..MaxChars, others \in 0..MaxChars, c \in OtherChars}

NoLanguage == "none"

LanguageInit ==
    /\ lang_text = <<>>
    /\ language = NoLanguage

\* One call of _detect_language.
DetectLanguage ==
    /\ language = NoLanguage
    /\ \E text \in LanguageTexts :
          /\ Len(text) <= MaxChars
          /\ lang_text' = text
          /\ language' = detect_language(text)
    /\ UNCHANGED <<scrapeVars, scoreVars, extractVars, flowVars, parseVars,
                   timeVars, reviewerVars, serveVars, redirectVars, tabVars, orderVars>>

\* The next review's text.
NextText ==
    /\ language # NoLanguage
    /\ lang_text' = <<>>
    /\ language' = NoLanguage
    /\ UNCHANGED <<scrapeVars, scoreVars, extractVars, flowVars, parseVars,
                   timeVars, reviewerVars, serveVars, redirectVars, tabVars, orderVars>>

\* ================================================================ Part 10
\* ---------------------------------------------------------------- follow_redirect and the hops it follows

\* `def follow_redirect(url: str, max_redirects: int = 5)`
DefaultMaxRedirects == 5

\* requests.head(url, allow_redirects=True, timeout=10) and requests.get(...)
\* are given no redirect limit: each follows up to the limit of the session
\* that requests makes for the call, 30, and raises TooManyRedirects beyond.
SessionRedirectLimit == 30

MaxChain == 32

\* One request of follow_redirect on a chain of `chain` redirects: it raises,
\* or answers after following them all.
RequestFollows(chain, budget) ==
    IF chain > SessionRedirectLimit
    THEN [raises |-> TRUE, hops |-> SessionRedirectLimit]
    ELSE [raises |-> FALSE, hops |-> chain]

\* follow_redirect(url, max_redirects): HEAD, and GET when HEAD raised; both
\* meet the same chain.
FollowChain(chain, budget) ==
    LET head == RequestFollows(chain, budget)
        get == RequestFollows(chain, budget)
    IN  IF ~head.raises THEN head ELSE get            \* `raise e` when GET raised too

NotFollowed == [raises |-> FALSE, hops |-> 0]

RedirectInit ==
    /\ redirect_chain = 0
    /\ max_redirects = DefaultMaxRedirects
    /\ followed = NotFollowed

\* parse_google_maps_url calls follow_redirect(url) for a short link; another
\* caller may give a budget of its own.
FollowRedirect ==
    /\ redirect_chain = 0
    /\ \E chain \in 1..MaxChain, budget \in 0..DefaultMaxRedirects :
          /\ redirect_chain' = chain
          /\ max_redirects' = budget
          /\ followed' = FollowChain(chain, budget)
    /\ UNCHANGED <<scrapeVars, scoreVars, extractVars, flowVars, parseVars,
                   timeVars, reviewerVars, serveVars, langVars, tabVars, orderVars>>

\* The next short link.
NextShortLink ==
    /\ redirect_chain # 0
    /\ redirect_chain' = 0
    /\ max_redirects' = DefaultMaxRedirects
    /\ followed' = NotFollowed
    /\ UNCHANGED <<scrapeVars, scoreVars, extractVars, flowVars, parseVars,
                   timeVars, reviewerVars, serveVars, langVars, tabVars, orderVars>>

\* ================================================================ Part 11
\* ---------------------------------------------------------------- _click_reviews_tab

\* review_button_selectors, in the order of the list.
review_button_selectors ==
    << "button[aria-label*=Reviews]", "button[aria-label*=he]",
       "[role=tab]:has-text(he)", "[role=tab]:has-text(Reviews)",
       "button:has-text(he)", "button:has-text(Reviews)",
       "button.hh2c6", "button[jsaction*=review]",
       "div[role=tab]:has-text(Reviews)", "div[role=tab]:has-text(he)",
       "div.RWPxGd button", "button[data-tab-index]", "*:has-text(he)" >>

MaxElements == 2

\* An element a query hands over: where the keyword ("review", or the
\* Hebrew word) stands in its texts, whether reading its text raises, and
\* whether a click on it raises.
Elements ==
    [keyword : {"text_content", "inner_text", "nowhere"},
     text_raises : BOOLEAN,
     click_raises : BOOLEAN]

ElementLists == UNION {[1..n -> Elements] : n \in 0..MaxElements}

\* An element of any text is taken for the reviews control.
AnyText(element) == TRUE

\* Tier one: `if 'review' in text or <the Hebrew word> in text`, text being
\* text_content() stripped and lowered.
HasKeyword(element) == element.keyword = "text_content"

\* Tier two: the keyword in text_content or in inner_text.
HasKeywordInEither(element) == element.keyword \in {"text_content", "inner_text"}

NoClicks == [succeeded |-> 0, failed |-> 0, without_keyword |-> 0, after_success |-> 0]

\* One click, counted.
Counted(clicks, element, ok) ==
    [succeeded |-> clicks.succeeded + (IF ok THEN 1 ELSE 0),
     failed |-> clicks.failed + (IF ok THEN 0 ELSE 1),
     without_keyword |-> clicks.without_keyword
                         + (IF element.keyword = "nowhere" THEN 1 ELSE 0),
     after_success |-> clicks.after_success + (IF clicks.succeeded > 0 THEN 1 ELSE 0)]

\* `for i, button in enumerate(elements):` of tier one from element k on: an
\* element whose text or click raises is passed over, the first click that
\* returns ends the function.
RECURSIVE ClickFirst(_, _, _)
ClickFirst(elements, k, clicks) ==
    IF k > Len(elements) THEN clicks
    ELSE IF elements[k].text_raises THEN ClickFirst(elements, k + 1, clicks)
    ELSE IF ~HasKeyword(elements[k]) THEN ClickFirst(elements, k + 1, clicks)
    ELSE IF elements[k].click_raises
         THEN ClickFirst(elements, k + 1, Counted(clicks, elements[k], FALSE))
    ELSE Counted(clicks, elements[k], TRUE)                       \* return True

\* The second loop of the fallback from element k on.
RECURSIVE ScanFirst(_, _, _)
ScanFirst(elements, k, clicks) ==
    IF k > Len(elements) THEN clicks
    ELSE IF elements[k].text_raises THEN ScanFirst(elements, k + 1, clicks)
    ELSE IF ~HasKeywordInEither(elements[k]) THEN ScanFirst(elements, k + 1, clicks)
    ELSE IF elements[k].click_raises
         THEN ScanFirst(elements, k + 1, Counted(clicks, elements[k], FALSE))
    ELSE Counted(clicks, elements[k], TRUE)                       \* return True

TabInit ==
    /\ tab_pc = "idle"
    /\ tried = <<>>
    /\ tab_clicks = NoClicks
    /\ tab_result = "none"

\* scrape_business: `reviews_visible = await self._click_reviews_tab()`
EnterClickReviewsTab ==
    /\ tab_pc = "idle"
    /\ tab_pc' = "selectors"
    /\ UNCHANGED <<tried, tab_clicks, tab_result>>
    /\ UNCHANGED <<scrapeVars, scoreVars, extractVars, flowVars, parseVars,
                   timeVars, reviewerVars, serveVars, langVars, redirectVars, orderVars>>

\* `for selector in review_button_selectors:` one selector: the query raises
\* or hands over elements, which are gone through; after the last selector,
\* the fallback.
TrySelector ==
    /\ tab_pc = "selectors"
    /\ tried' = Append(tried, review_button_selectors[Len(tried) + 1])
    /\ \/ /\ UNCHANGED tab_clicks                      \* query_selector_all raised
          /\ tab_pc' = IF Len(tried') < Len(review_button_selectors)
                       THEN "selectors" ELSE "scan"
          /\ UNCHANGED tab_result
       \/ \E elements \in ElementLists :
             LET clicks == ClickFirst(elements, 1, tab_clicks)
             IN  /\ tab_clicks' = clicks
                 /\ IF clicks.succeeded > tab_clicks.succeeded
                    THEN tab_pc' = "returned" /\ tab_result' = "True"
                    ELSE /\ tab_pc' = IF Len(tried') < Len(review_button_selectors)
                                      THEN "selectors" ELSE "scan"
                         /\ UNCHANGED tab_result
    /\ UNCHANGED <<scrapeVars, scoreVars, extractVars, flowVars, parseVars,
                   timeVars, reviewerVars, serveVars, langVars, redirectVars, orderVars>>

\* "FALLBACK": the query of all clickable elements raises, or they are logged
\* and gone through; `return False` at the end.
FallbackScan ==
    /\ tab_pc = "scan"
    /\ tab_pc' = "returned"
    /\ \/ /\ UNCHANGED tab_clicks
          /\ tab_result' = "False"
       \/ \E all_clickables \in ElementLists :
             LET clicks == ScanFirst(all_clickables, 1, tab_clicks)
             IN  /\ tab_clicks' = clicks
                 /\ tab_result' = IF clicks.succeeded > tab_clicks.succeeded
                                  THEN "True" ELSE "False"
    /\ UNCHANGED tried
    /\ UNCHANGED <<scrapeVars, scoreVars, extractVars, flowVars, parseVars,
                   timeVars, reviewerVars, serveVars, langVars, redirectVars, orderVars>>

\* The next scrape, of another page.
NextPage ==
    /\ tab_pc = "returned"
    /\ tab_pc' = "idle"
    /\ tried' = <<>>
    /\ tab_clicks' = NoClicks
    /\ tab_result' = "none"
    /\ UNCHANGED <<scrapeVars, scoreVars, extractVars, flowVars, parseVars,
                   timeVars, reviewerVars, serveVars, langVars, redirectVars, orderVars>>

\* ================================================================ Part 12
\* ---------------------------------------------------------------- the rules on a reordered list

\* Six reviews by six reviewers with one text and no date: fifteen similar
\* pairs.
SixAlike == [k \in 1..6 |-> Review(k, TextA, NoDate)]

\* Four short reviews, two in one minute and two in another.
TiedMinutes ==
    << Review(1, TextShort, IsoDate(60)), Review(2, TextShort, IsoDate(61)),
       Review(3, TextShort, IsoDate(120)), Review(4, TextShort, IsoDate(125)) >>

\* Three reviews: one similar pair, one cluster.
OnePairOneCluster ==
    << Review(1, TextA, IsoDate(60)), Review(2, TextA2, IsoDate(119)),
       Review(3, TextB, IsoDate(300)) >>

OrderLists == {SixAlike, TiedMinutes, OnePairOneCluster}

\* The rows with the ids `ids`, in that order.
Reordered(rs, ids) == [k \in 1..Len(ids) |-> rs[ids[k]]]

\* What the two rules report on the rows rs, whose ids are `ids`: the
\* flagged pairs and clusters by the ids of their reviews, and the reasoning.
Evidence(rs, ids) ==
    LET text == TextSimilarityAnalyze(rs)
        timing == TimingAnalysisAnalyze(rs)
    IN  [pairs |-> {{ids[text.flagged_items[k].review1_id],
                     ids[text.flagged_items[k].review2_id]} :
                        k \in 1..Len(text.flagged_items)},
         text_reasoning |-> text.reasoning,
         clusters |-> {[timestamp |-> timing.flagged_items[k].timestamp,
                        review_ids |-> {ids[timing.flagged_items[k].review_ids[m]] :
                                           m \in 1..Len(timing.flagged_items[k].review_ids)}] :
                          k \in 1..Len(timing.flagged_items)},
         timing_reasoning |-> timing.reasoning]

NoEvidence ==
    [pairs |-> {}, text_reasoning |-> Reasoning("none", 0, 0, 0),
     clusters |-> {}, timing_reasoning |-> Reasoning("none", 0, 0, 0)]

OrderInit ==
    /\ listed = <<>>
    /\ shuffle = <<>>
    /\ evidence = [as_stored |-> NoEvidence, reordered |-> NoEvidence]

\* Both rules on the rows of a business as stored, and on the same rows in
\* another order.
AnalyzeBothOrders ==
    /\ listed = <<>>
    /\ \E rs \in OrderLists :
          \E f \in Permutations(1..Len(rs)) :
             /\ listed' = rs
             /\ shuffle' = f
             /\ evidence' = [as_stored |-> Evidence(rs, [k \in 1..Len(rs) |-> k]),
                             reordered |-> Evidence(Reordered(rs, f), f)]
    /\ UNCHANGED <<scrapeVars, scoreVars, extractVars, flowVars, parseVars,
                   timeVars, reviewerVars, serveVars, langVars, redirectVars, tabVars>>

\* The next business.
NextBusiness ==
    /\ listed # <<>>
    /\ listed' = <<>>
    /\ shuffle' = <<>>
    /\ evidence' = [as_stored |-> NoEvidence, reordered |-> NoEvidence]
    /\ UNCHANGED <<scrapeVars, scoreVars, extractVars, flowVars, parseVars,
                   timeVars, reviewerVars, serveVars, langVars, redirectVars, tabVars>>

Init ==
    /\ ScrapeInit /\ ScoreInit /\ ExtractInit /\ FlowInit /\ ParseInit
    /\ TimeInit /\ ReviewersInit /\ ServeInit
    /\ LanguageInit /\ RedirectInit /\ TabInit /\ OrderInit

Next ==
    \/ Call
    \/ StartPlaywright
    \/ LaunchBrowser
    \/ NewContext
    \/ NewPage
    \/ ScrapeBusiness
    \/ Navigate
    \/ ExtractBusinessInfo
    \/ ClickReviewsTab
    \/ ScrollPage
    \/ SortByNewest
    \/ FindContainer
    \/ FindSelector
    \/ Enumerate
    \/ LoopExhausted
    \/ ExtractReview
    \/ CheckGrowth
    \/ ScrollRaises
    \/ ClosePage
    \/ CloseBrowser
    \/ StopPlaywright

Spec == Init /\ [][Next]_vars

NextScore ==
    \/ AnalyzeBusiness
    \/ RunRule
    \/ RuleFails
    \/ ScoreGiven
    \/ CalculateScore

SpecScore == Init /\ [][NextScore]_vars

NextExtract ==
    \/ ExtractReviewData
    \/ ExtractReviewerName
    \/ ExtractRating
    \/ ExtractText
    \/ ExtractTimestamp
    \/ ExtractReviewerTotal
    \/ ReturnReviewData
    \/ StoreReview
    \/ NextElement

SpecExtract == Init /\ [][NextExtract]_vars

NextFlow ==
    \/ Analyze
    \/ Goto
    \/ ExtractBusinessData
    \/ LocateReviewsPanel
    \/ ProceedToHarvest
    \/ Harvest
    \/ Validate
    \/ NextRequest

SpecFlow == Init /\ [][NextFlow]_vars

NextParse == ParseUrl \/ NextAddress

SpecParse == Init /\ [][NextParse]_vars

NextTime == ParseRelativeTime \/ NextTimestamp

SpecTime == Init /\ [][NextTime]_vars

NextReviewers == SaveReviewer

SpecReviewers == Init /\ [][NextReviewers]_vars

NextServe ==
    \/ \E w \in Workers :
          \/ ServeParse(w) \/ CacheGate(w)
          \/ CreateScraper(w) \/ Initialize(w) \/ ScrapeBusinessPage(w) \/ CloseScraper(w)
          \/ SelectBusiness(w) \/ UpsertBusiness(w)
          \/ SaveOneReviewer(w) \/ SaveReviews(w) \/ SaveAnalysisResults(w)
          \/ UpdateAnalyzedTime(w) \/ StoreRaises(w) \/ Respond(w)
    \/ Elapse

SpecServe == Init /\ [][NextServe]_vars

NextLanguage == DetectLanguage \/ NextText

SpecLanguage == Init /\ [][NextLanguage]_vars

NextRedirect == FollowRedirect \/ NextShortLink

SpecRedirect == Init /\ [][NextRedirect]_vars

NextTab == EnterClickReviewsTab \/ TrySelector \/ FallbackScan \/ NextPage

SpecTab == Init /\ [][NextTab]_vars

NextOrder == AnalyzeBothOrders \/ NextBusiness

SpecOrder == Init /\ [][NextOrder]_vars

\* ---------------------------------------------------------------- claims C1-C4

InHarvestLoop == pc \in {"enumerate", "extract", "check"}

HarvestRank ==
    scroll_iteration * (MaxRendered + 3)
      + (CASE pc = "enumerate" -> 0
           [] pc = "extract" -> 1 + elem
           [] pc = "check" -> MaxRendered + 2
           [] OTHER -> 0)

\* C2: the harvesting loop terminates whatever the page renders: it never
\* begins more than max_scrolls (100) iterations, every step inside the loop
\* moves strictly forward (or leaves the loop), the loop can always take a
\* step, and once the 100 iterations are done the function returns.
C2_HarvestTerminates ==
    /\ [](scroll_iteration <= max_scrolls)
    /\ [](InHarvestLoop /\ pc # "enumerate" => scroll_iteration < max_scrolls)
    /\ [](InHarvestLoop => ENABLED Next)
    /\ [][InHarvestLoop =>
            \/ pc' = Finally
            \/ InHarvestLoop' /\ HarvestRank' > HarvestRank]_vars
    /\ [][pc = "enumerate" /\ scroll_iteration = max_scrolls =>
            pc' = Finally /\ stop_reason' = "max_scrolls" /\ ~raised']_vars

\* A harvest whose rendered count never stabilised and that was ended by the
\* iteration ceiling alone.
C2_Witness ==
    /\ stop_reason = "max_scrolls"
    /\ scroll_iteration = max_scrolls
    /\ no_new_reviews_count < NoNewReviewsLimit
    /\ reviews < MAX_REVIEWS_TO_SCRAPE

\* C3: the harvested list never holds more than MAX_REVIEWS_TO_SCRAPE records,
\* and the loop is left as soon as it holds that many: inside the loop the
\* count is below the maximum.
C3_HarvestBoundedByMaximum ==
    /\ reviews <= MAX_REVIEWS_TO_SCRAPE
    /\ (InHarvestLoop => reviews < MAX_REVIEWS_TO_SCRAPE)
    /\ (reviews = MAX_REVIEWS_TO_SCRAPE <=> stop_reason = "max_reviews")

\* The maximum was reached in the middle of an enumeration that rendered more
\* elements than were still wanted.
C3_Witness ==
    /\ stop_reason = "max_reviews"
    /\ reviews = MAX_REVIEWS_TO_SCRAPE
    /\ leftover > 0

\* C4: the no-growth stop fires exactly when the rendered count has failed to
\* grow on three consecutive iterations: it fires only then, an iteration with
\* growth resets the window, and no iteration is started after three
\* consecutive iterations without growth.
C4_NoGrowthStopExact ==
    /\ (stop_reason = "no_growth" => stalled >= NoNewReviewsLimit)
    /\ (pc = "enumerate" /\ stalled = 0 => no_new_reviews_count = 0)
    /\ (pc = "enumerate" => stalled < NoNewReviewsLimit)

\* ---------------------------------------------------------------- claims C5-C10

\* analyze_business has returned: its mapping is with the scorer.
DetectorReturned == origin = "detector" /\ apc \in {"score", "done"}

Scored == apc = "done"

InPercentRange(score) == RLe(<<0, 1>>, score) /\ RLe(score, <<100, 1>>)

\* C5: analyze_business isolates rule failures. While it runs it is at one of
\* its rules with an entry for each rule before it, whatever those rules did,
\* and it can take its next step; when it has returned, the mapping has one
\* entry per
\* enabled rule, in the order of the rules; the entry of a rule that raised is
\* score 0, no flagged items and the error rationale, and the entry of a rule
\* that did not raise is that rule's own outcome, whatever raised before it.
C5_RuleFailuresIsolated ==
    /\ (apc = "rules" =>
          /\ rule_idx \in 1..Len(rules)
          /\ Len(rule_results) = rule_idx - 1
          /\ ENABLED (RunRule \/ RuleFails))
    /\ (DetectorReturned =>
          /\ Len(rule_results) = Len(rules)
          /\ \A k \in 1..Len(rules) :
                /\ rule_results[k].name = rules[k]
                /\ IF RuleRaises(rules[k], stored_reviews, failing)
                     THEN /\ rule_results[k].outcome.score = <<0, 1>>
                          /\ rule_results[k].outcome.flagged_items = <<>>
                          /\ rule_results[k].outcome.reasoning.kind = "error"
                     ELSE rule_results[k].outcome = RuleAnalyze(rules[k], stored_reviews))

\* The first rule raised on a None text, the rule after it ran and found a
\* timing cluster.
C5_Witness ==
    /\ DetectorReturned
    /\ failing = {}
    /\ rule_results[1].outcome.reasoning.kind = "error"
    /\ rule_results[2].outcome.reasoning.kind = "found_clusters"
    /\ RLt(<<0, 1>>, rule_results[2].outcome.score)

\* The entries of the rules that returned, rather than raised.
ReturnedOutcomes ==
    {rule_results[k].outcome : k \in {m \in 1..Len(rule_results) :
        ~RuleRaises(rule_results[m].name, stored_reviews, failing)}}

\* C6: every score a rule returns lies in [0,100], and on a list of fewer than
\* two reviews a rule returns score exactly 0 and no flagged items.
C6_RuleScoresInRange ==
    origin = "detector" =>
        \A outcome \in ReturnedOutcomes :
            /\ InPercentRange(outcome.score)
            /\ (Len(stored_reviews) < 2 =>
                  /\ outcome.score = <<0, 1>>
                  /\ outcome.flagged_items = <<>>)

\* Three reviews by three reviewers, all pairwise similar (three pairs), one of
\* them without a timestamp: the text rule returns exactly 100.
C6_Witness ==
    /\ DetectorReturned
    /\ Len(stored_reviews) = 3
    /\ \E k \in 1..3 : stored_reviews[k].review_date.kind = "None"
    /\ rule_results[1].outcome \in ReturnedOutcomes
    /\ Len(rule_results[1].outcome.flagged_items) = 3
    /\ REq(rule_results[1].outcome.score, <<100, 1>>)

\* A single review: both rules return the zero outcome.
C6_WitnessSingle ==
    /\ DetectorReturned
    /\ Len(stored_reviews) = 1
    /\ Cardinality(ReturnedOutcomes) = 1
    /\ Len(rule_results) = 2

RuleSet == {rules[k] : k \in 1..Len(rules)}

RECURSIVE SumWeights(_)
SumWeights(names) ==
    IF names = {} THEN 0
    ELSE LET n == CHOOSE n \in names : TRUE
         IN  WEIGHTS[n] + SumWeights(names \ {n})

\* C7: the rules the detector runs and the weight table agree: the enabled
\* names are exactly the names with a weight, the weights of the enabled rules
\* sum to 1.0 (ten tenths), and these are the weights of the breakdown.
C7_RulesAndWeightsAgree ==
    /\ RuleSet = DOMAIN WEIGHTS
    /\ SumWeights(RuleSet) = 10
    /\ (Scored => \A k \in 1..Len(final_score.breakdown) :
            /\ final_score.breakdown[k].name \in RuleSet
            /\ final_score.breakdown[k].weight = WEIGHTS[final_score.breakdown[k].name])

\* A scored detector run whose breakdown carries both weights.
C7_Witness ==
    /\ Scored
    /\ origin = "detector"
    /\ {final_score.breakdown[k].weight : k \in 1..Len(final_score.breakdown)} = {6, 4}

\* The score a rule's entry of the mapping carries.
ScoreOf(rule_name) ==
    (CHOOSE e \in {rule_results[k] : k \in 1..Len(rule_results)} : e.name = rule_name).outcome.score

\* The rule's entry of the breakdown.
BreakdownOf(rule_name) ==
    CHOOSE b \in {final_score.breakdown[k] : k \in 1..Len(final_score.breakdown)} :
        b.name = rule_name

SmallestScore == RMin(ScoreOf("TextSimilarityRule"), ScoreOf("TimingAnalysisRule"))
LargestScore ==
    IF RLe(ScoreOf("TextSimilarityRule"), ScoreOf("TimingAnalysisRule"))
    THEN ScoreOf("TimingAnalysisRule") ELSE ScoreOf("TextSimilarityRule")

\* 0.6 * text + 0.4 * timing
ExactWeightedSum ==
    <<6 * ScoreOf("TextSimilarityRule")[1] * ScoreOf("TimingAnalysisRule")[2]
        + 4 * ScoreOf("TimingAnalysisRule")[1] * ScoreOf("TextSimilarityRule")[2],
      10 * ScoreOf("TextSimilarityRule")[2] * ScoreOf("TimingAnalysisRule")[2]>>

\* C8 as stated: for the mapping the detector produced, the overall score, the
\* weighted sum rounded to one decimal, lies in [0,100] and between the
\* smallest and the largest rule score.
C8_OverallBetweenRuleScores ==
    Scored /\ origin = "detector" =>
        /\ final_score.overall_score = RoundTenths(ExactWeightedSum)
        /\ final_score.overall_score \in 0..1000
        /\ RLe(SmallestScore, <<final_score.overall_score, 10>>)
        /\ RLe(<<final_score.overall_score, 10>>, LargestScore)

\* C8, amended: the overall score is the weighted sum rounded to one decimal;
\* it lies in [0,100] and between the smallest and the largest rule score each
\* rounded to one decimal; it is 0 when every rule scores 0 and 100 when every
\* rule scores 100.
C8_OverallBetweenRoundedRuleScores ==
    Scored =>
        /\ final_score.overall_score = RoundTenths(ExactWeightedSum)
        /\ final_score.overall_score \in 0..1000
        /\ RoundTenths(SmallestScore) <= final_score.overall_score
        /\ final_score.overall_score <= RoundTenths(LargestScore)
        /\ (REq(LargestScore, <<0, 1>>) => final_score.overall_score = 0)
        /\ (REq(SmallestScore, <<100, 1>>) => final_score.overall_score = 1000)

\* The detector found two of three reviews by both rules: both score 66.66...,
\* the overall score is 66.7.
C8_Witness ==
    /\ Scored
    /\ origin = "detector"
    /\ REq(SmallestScore, <<200, 3>>)
    /\ REq(LargestScore, <<200, 3>>)
    /\ final_score.overall_score = 667

TierRank(level) ==
    CASE level = "MINIMAL" -> 0 [] level = "LOW" -> 1 [] level = "MEDIUM" -> 2
      [] level = "HIGH" -> 3

\* C9: the risk tier is a function of the returned overall score only: HIGH
\* iff the score is at least 75, MEDIUM iff it is at least 50 and below 75, LOW
\* iff it is at least 25 and below 50, MINIMAL iff it is below 25; and no
\* higher score has a lower tier.
C9_RiskTierOfRoundedScore ==
    Scored =>
        /\ (final_score.risk_level = "HIGH" <=> final_score.overall_score >= 750)
        /\ (final_score.risk_level = "MEDIUM" <=>
               final_score.overall_score >= 500 /\ final_score.overall_score < 750)
        /\ (final_score.risk_level = "LOW" <=>
               final_score.overall_score >= 250 /\ final_score.overall_score < 500)
        /\ (final_score.risk_level = "MINIMAL" <=> final_score.overall_score < 250)
        /\ \A higher \in final_score.overall_score..1000 :
               TierRank(get_risk_level(higher)) >= TierRank(final_score.risk_level)

\* A weighted sum below 75 that rounds to 75.0 and is HIGH.
C9_Witness ==
    /\ Scored
    /\ RLt(ExactWeightedSum, <<75, 1>>)
    /\ final_score.overall_score = 750
    /\ final_score.risk_level = "HIGH"

\* The rule names of the reasoning lines, in their order.
LineNames == IF final_score.reasoning = <<NoIndicators>> THEN <<>> ELSE final_score.reasoning

LineSet == {LineNames[k] : k \in 1..Len(LineNames)}

\* C10 as stated: a line for exactly the rules whose score exceeds 10, in
\* descending order of score x weight.
C10_ReasoningOfScoresAbove10 ==
    Scored =>
        /\ LineSet = {n \in RuleSet : RLt(<<10, 1>>, ScoreOf(n))}
        /\ Len(LineNames) = Cardinality(LineSet)
        /\ \A k \in 1..(Len(LineNames) - 1) :
              RLe(Contribution(ScoreOf(LineNames[k + 1]), WEIGHTS[LineNames[k + 1]]),
                  Contribution(ScoreOf(LineNames[k]), WEIGHTS[LineNames[k]]))
        /\ Len(final_score.reasoning) >= 1
        /\ (LineSet = {} => final_score.reasoning = <<NoIndicators>>)

\* C10, amended: a line for exactly the rules whose score rounded to one
\* decimal exceeds 10, in descending order of the contribution rounded to one
\* decimal, rules of equal rounded contribution in the order of the mapping;
\* never empty: the single no-indicators message when there is no such rule.
C10_ReasoningOfRoundedScoresAbove10 ==
    Scored =>
        /\ LineSet = {n \in RuleSet : RoundTenths(ScoreOf(n)) > 100}
        /\ Len(LineNames) = Cardinality(LineSet)
        /\ \A k \in 1..(Len(LineNames) - 1) :
              \/ BreakdownOf(LineNames[k]).contribution > BreakdownOf(LineNames[k + 1]).contribution
              \/ /\ BreakdownOf(LineNames[k]).contribution = BreakdownOf(LineNames[k + 1]).contribution
                 /\ rule_results[1].name = LineNames[k]
        /\ Len(final_score.reasoning) >= 1
        /\ (LineSet = {} => final_score.reasoning = <<NoIndicators>>)

\* Two lines, the second rule of the mapping first.
C10_Witness ==
    /\ Scored
    /\ Len(LineNames) = 2
    /\ LineNames[1] = rule_results[2].name

\* ---------------------------------------------------------------- claims C11-C20

TextOutcome == rule_results[1].outcome

TextRuleReturned ==
    /\ DetectorReturned
    /\ Len(stored_reviews) >= 2
    /\ ~RuleRaises("TextSimilarityRule", stored_reviews, failing)

\* The pairs of stored reviews by different reviewers whose texts both have
\* the minimum length and a ratio at or above the threshold.
PairsToFlag ==
    {p \in (1..Len(stored_reviews)) \X (1..Len(stored_reviews)) :
        /\ p[1] < p[2]
        /\ stored_reviews[p[1]].reviewer_id # stored_reviews[p[2]].reviewer_id
        /\ Len(stored_reviews[p[1]].review_text.s) >= 20
        /\ Len(stored_reviews[p[2]].review_text.s) >= 20
        /\ ratio(stored_reviews[p[1]].review_text, stored_reviews[p[2]].review_text) >= 85}

ReportedPairs ==
    {<<TextOutcome.flagged_items[k].review1_id, TextOutcome.flagged_items[k].review2_id>> :
        k \in 1..Len(TextOutcome.flagged_items)}

TimingOutcome == rule_results[2].outcome

TimingRuleReturned ==
    /\ DetectorReturned
    /\ Len(stored_reviews) >= 2
    /\ ~RuleRaises("TimingAnalysisRule", stored_reviews, failing)

\* The stored reviews whose date is a timestamp.
Dated == {i \in 1..Len(stored_reviews) : stored_reviews[i].review_date.kind = "iso"}

SameMinute(i, j) ==
    stored_reviews[i].review_date.t \div 60 = stored_reviews[j].review_date.t \div 60

\* The reviews that share their minute with at least min_cluster_size - 1 others.
InSomeCluster == {i \in Dated : Cardinality({j \in Dated : SameMinute(i, j)}) >= 2}

\* C12: the timing rule buckets the reviews by their timestamp truncated to
\* the minute; the clusters are the buckets of at least 2 reviews; the score is
\* the number of reviews inside a cluster over the number of reviews, times
\* 100: exactly 100 when all reviews share one minute, 0 when no two do.
C12_TimingRuleClustersAndScores ==
    TimingRuleReturned =>
        /\ REq(TimingOutcome.score, <<100 * Cardinality(InSomeCluster), Len(stored_reviews)>>)
        /\ \A k \in 1..Len(TimingOutcome.flagged_items) :
              LET c == TimingOutcome.flagged_items[k]
              IN  /\ c.count >= 2
                  /\ c.count = Len(c.review_ids)
                  /\ \A m \in 1..Len(c.review_ids) :
                        /\ c.review_ids[m] \in Dated
                        /\ stored_reviews[c.review_ids[m]].review_date.t \div 60
                              = c.timestamp \div 60
                  /\ {c.review_ids[m] : m \in 1..Len(c.review_ids)}
                        = {i \in Dated : stored_reviews[i].review_date.t \div 60
                                            = c.timestamp \div 60}
        /\ (Dated = 1..Len(stored_reviews) /\ (\A i, j \in Dated : SameMinute(i, j))
               => REq(TimingOutcome.score, <<100, 1>>))
        /\ ((\A i, j \in Dated : SameMinute(i, j) => i = j)
               => /\ REq(TimingOutcome.score, <<0, 1>>)
                  /\ TimingOutcome.flagged_items = <<>>)

\* Three reviews at different seconds of one minute: one cluster, score 100.
C12_Witness ==
    /\ TimingRuleReturned
    /\ Len(stored_reviews) = 3
    /\ Dated = 1..3
    /\ Cardinality({stored_reviews[i].review_date.t : i \in 1..3}) = 3
    /\ Len(TimingOutcome.flagged_items) = 1
    /\ TimingOutcome.flagged_items[1].count = 3
    /\ REq(TimingOutcome.score, <<100, 1>>)

\* The list in another order.
Permuted(rs, f) == [k \in 1..Len(rs) |-> rs[f[k]]]

\* The score the detector records for the rule on a list.
RecordedScore(rule_name, rs) ==
    IF RuleRaises(rule_name, rs, failing) THEN <<0, 1>> ELSE RuleAnalyze(rule_name, rs).score

\* C13: the scores do not depend on the order of the reviews: for every
\* permutation of the stored list, each rule's score on the permuted list
\* equals its score on the list as stored.
C13_ScoresSymmetricInOrder ==
    DetectorReturned /\ apc = "score" /\ stored_reviews \in ReviewLists =>
        \A f \in Permutations(1..Len(stored_reviews)) :
            \A k \in 1..Len(rules) :
                REq(rule_results[k].outcome.score,
                    RecordedScore(rules[k], Permuted(stored_reviews, f)))

\* Three different reviews, two of them similar and two in one minute: both
\* scores are 66.66... in each of the six orders.
C13_Witness ==
    /\ DetectorReturned
    /\ failing = {}
    /\ Len(stored_reviews) = 3
    /\ Cardinality({stored_reviews[k] : k \in 1..3}) = 3
    /\ REq(TextOutcome.score, <<200, 3>>)
    /\ REq(TimingOutcome.score, <<200, 3>>)
    /\ ~TextSimilarityRaises(stored_reviews)

\* Two stored reviews by different reviewers, both texts long enough, similar
\* at or above the threshold, dated in one minute.
TwoSimilarReviewsInOneMinute ==
    /\ Len(stored_reviews) = 2
    /\ stored_reviews[1].reviewer_id # stored_reviews[2].reviewer_id
    /\ ~stored_reviews[1].review_text.isNone
    /\ ~stored_reviews[2].review_text.isNone
    /\ Len(stored_reviews[1].review_text.s) >= MinTextLength
    /\ Len(stored_reviews[2].review_text.s) >= MinTextLength
    /\ ratio(stored_reviews[1].review_text, stored_reviews[2].review_text)
          >= TEXT_SIMILARITY_THRESHOLD
    /\ Dated = {1, 2}
    /\ SameMinute(1, 2)

Fields == {"reviewer_name", "rating", "text", "timestamp", "reviewer_total_reviews", "language"}

\* C15: whatever sub-extractions fail, the record _extract_review_data returns
\* has no absent field (reviewer name is the extracted value or "Unknown",
\* rating the extracted value or 5, text the extracted value or '', timestamp
\* the normalised value or the capture instant, total-review count the
\* extracted value or 1), and so the store step reads every field of the
\* record without raising.
C15_NoFieldAbsent ==
    /\ xpc \in {"returned", "stored"} =>
          /\ \A f \in Fields : review_data[f] # Absent
          /\ review_data.reviewer_name \in {"Dana", "None", "Unknown"}
          /\ review_data.rating \in {"extracted", "5"}
          /\ review_data.text \in {"Great place", "None", ""}
          /\ review_data.timestamp \in {"now - delta", "now"}
          /\ review_data.reviewer_total_reviews \in {"extracted", "1"}
    /\ xpc = "stored" => store_outcome = "saved"


\* ---------------------------------------------------------------- C16

\* C16: when neither the structural selectors nor the full-page text scan
\* activates a reviews control, the scrape ends in a ReviewsPanelNotFound
\* error: scrape_business does not go on to harvest and does not return a
\* normal result.
C16_PanelNotFoundEndsTheScrape ==
    panel = "not_found" =>
        /\ rpc \notin {"harvest", "validate"}
        /\ rpc = "reported" =>
              /\ scrape_result.kind = "raised"
              /\ error_msg.detail = "ReviewsPanelNotFound"

\* ---------------------------------------------------------------- C17

\* A scrape of a business that has reviews came back with none because the
\* container or the review elements were not found or the panel not opened.
FailedWithZeroReviews ==
    /\ rpc = "reported"
    /\ the_page.reviews > 0
    /\ scrape_result.kind = "returned"
    /\ scrape_result.reviews = 0
    /\ (cause \in {"no_container", "no_selector"} \/ panel = "not_found")

\* A business without reviews was scraped and reported.
GenuineZeroReported ==
    /\ rpc = "reported"
    /\ the_page.reviews = 0
    /\ scrape_result.kind = "returned"

\* What the scrape of a business without reviews hands over.
ZeroReviewsResult(business) == [kind |-> "returned", business |-> business, reviews |-> 0]

\* C17: a scrape that fails after navigation and leaves zero reviews produces
\* neither the result value nor the message that a business with genuinely
\* zero reviews produces.
C17_FailureDistinctFromNoReviews ==
    FailedWithZeroReviews =>
        /\ scrape_result # ZeroReviewsResult(scrape_result.business)
        /\ error_msg # ValidationMessage(ZeroReviewsResult(scrape_result.business))

\* The result and the message of a business without reviews are the ones a
\* failed scrape is compared with.
C17_GenuineZeroOutcome ==
    GenuineZeroReported =>
        /\ scrape_result = ZeroReviewsResult(scrape_result.business)
        /\ error_msg = ValidationMessage(ZeroReviewsResult(scrape_result.business))

\* ---------------------------------------------------------------- C18

\* C18: a navigation timeout is retried exactly once: the scrape ends in a
\* navigation timeout only after the address was loaded a second time, and no
\* step is tried more often than that.
C18_NavigationRetriedOnce ==
    /\ goto_calls <= 2
    /\ (rpc = "reported" /\ error_msg.detail = "Timeout 60000ms exceeded") => goto_calls = 2

\* ---------------------------------------------------------------- C19

\* The text a lookup found holds a number.
HasNumber(text) == \E k \in 1..Len(text) : text[k] = "digit"

\* C19: _extract_business_info returns and the scrape proceeds to panel
\* location; a field whose lookup found nothing or raised is null, a field
\* whose lookup succeeded has its value.
C19_FailedLookupsLeaveNull ==
    rpc = "click_tab" =>
        /\ business_data.name =
              IF the_page.name \in {Nothing, Raises} THEN "None" ELSE the_page.name[1]
        /\ business_data.address =
              IF the_page.address \in {Nothing, Raises, NoneValue} THEN "None"
              ELSE the_page.address[1]
        /\ business_data.average_rating =
              IF HasNumber(the_page.average_rating) THEN "extracted" ELSE "None"
        /\ business_data.total_reviews =
              IF HasNumber(the_page.total_reviews) THEN "extracted" ELSE "None"


\* ---------------------------------------------------------------- C20

\* The address the path is taken from: the redirect target of a short link.
Resolved == IF IsShortLink(url) THEN redirected ELSE url

\* The path holds a "/place/" followed by a name character.
HasPlaceName(path) ==
    \E k \in 1..(Len(path) - 3) :
        /\ SubSeq(path, k, k + 2) = <<"/", "place", "/">>
        /\ path[k + 3] \notin {"/", "@"}

\* The path holds "@", a decimal, a comma and a decimal.
HasLatLng(path) ==
    \E k \in 1..(Len(path) - 3) :
        /\ path[k] = "@" /\ path[k + 2] = ","
        /\ {path[k + 1], path[k + 3]} \subseteq {"31.5", "34.5", "-31.5", "034.50"}

\* The address passed the listing-site filter and, when a short link, its
\* redirect was resolved.
PassedFilter ==
    /\ url # <<>>
    /\ is_google_maps_url(url)
    /\ IsShortLink(url) => redirected # <<"raises">>

CoffeeShopUrl ==
    <<"https://", "www.google.com", "/", "maps",
      "/", "place", "/", "Coffee", "+", "Shop", "/", "@", "31.5", ",", "34.5", ",", "17z">>

\* C20: for an address that passed the filter, is_valid is true exactly when
\* a /place/<name> hint or an @lat,lng pair was recovered from the path; the
\* name is URL-decoded with '+' turned into a space (Coffee+Shop with
\* @31.5,34.5,17z gives 'Coffee Shop', (31.5, 34.5), valid); a place id alone
\* does not make the address valid.
C20_ValidIffNameOrCoordinates ==
    PassedFilter =>
        /\ parsed.is_valid <=> (parsed.business_name.found \/ parsed.coordinates.found)
        /\ parsed.kind = "returned" =>
              /\ parsed.business_name.found <=> HasPlaceName(UrlPath(Resolved))
              /\ parsed.coordinates.found <=> HasLatLng(UrlPath(Resolved))
        /\ parsed.business_name.found =>
              \A k \in 1..Len(parsed.business_name.text) :
                  parsed.business_name.text[k] \notin {"+", "%20", "%2B", "%C3%A9"}
        /\ Resolved = CoffeeShopUrl =>
              /\ parsed.business_name = Name(<<"Coffee", " ", "Shop">>)
              /\ parsed.coordinates = Coordinates(<<315, 10>>, <<345, 10>>)
              /\ parsed.is_valid
        /\ (parsed.place_id # "None" /\ ~HasPlaceName(UrlPath(Resolved))
               /\ ~HasLatLng(UrlPath(Resolved))) => ~parsed.is_valid

\* The Coffee+Shop address parsed valid, and an address with a place id and
\* nothing else parsed invalid.
C20_Witness ==
    /\ PassedFilter
    /\ url = CoffeeShopUrl \o <<"?", "ftid=0x1">>
    /\ parsed.is_valid
    /\ parsed.business_name.text = <<"Coffee", " ", "Shop">>
    /\ parsed.place_id = "ftid=0x1"

\* ---------------------------------------------------------------- C28
\* C28: a text "<n> <unit> ago" resolves to the capture instant minus n of
\* the unit (a month 30 days, a year 365 days), and a text of another shape
\* resolves to the capture instant itself.
SecondsOf ==
    ("second" :> 1) @@ ("minute" :> 60) @@ ("hour" :> 3600) @@ ("day" :> 86400)
    @@ ("week" :> 7 * 86400) @@ ("month" :> 30 * 86400) @@ ("year" :> 365 * 86400)

C28_RelativeTimeResolved ==
    time_text # NoTime =>
        /\ \A n \in 1..MaxAmount, unit \in 1..Len(Units), plural \in BOOLEAN, capitals \in BOOLEAN :
              time_text = ShapedTime(n, unit, plural, capitals)
                  => ~resolved.raises /\ resolved.ago = n * SecondsOf[Units[unit]]
        /\ time_text \notin ShapedTimes => resolved.ago = 0

\* The part of C28 the code keeps: a text of another shape never resolves to
\* an instant before the capture instant.
C28_UnshapedIsNow ==
    time_text # NoTime /\ time_text \notin ShapedTimes => resolved.ago = 0


\* ---------------------------------------------------------------- C22
\* C22: for a short link the resolver issues a HEAD request, and a GET
\* request only when HEAD raised; when both raised the result is the invalid
\* one with final_url the address given and no hint set; when one answered,
\* final_url is the address it answered with and the hints are those of that
\* address.
LastResponse == http_requests[Len(http_requests)].response

C22_HeadThenGet ==
    /\ url # <<>> /\ ~(IsShortLink(url) /\ is_google_maps_url(url)) => http_requests = <<>>
    /\ url # <<>> /\ IsShortLink(url) /\ is_google_maps_url(url) =>
          /\ Len(http_requests) \in {1, 2}
          /\ http_requests[1].method = "HEAD"
          /\ Len(http_requests) = 2 <=>
                http_requests[1].response = <<"raises">>
          /\ Len(http_requests) = 2 => http_requests[2].method = "GET"
          /\ LastResponse = <<"raises">> =>
                /\ parsed.kind = "returned" /\ ~parsed.is_valid
                /\ parsed.final_url = url /\ parsed.original_url = url
                /\ parsed.business_name = NoName /\ parsed.place_id = "None"
                /\ parsed.coordinates = NoCoordinates
          /\ LastResponse # <<"raises">> /\ parsed.kind = "returned" =>
                /\ parsed.final_url = LastResponse /\ parsed.original_url = url
                /\ parsed.business_name.found <=> PlaceGroup(UrlPath(LastResponse)) # <<>>
                /\ parsed.coordinates.found <=> CoordsGroups(UrlPath(LastResponse)) # <<>>
                /\ parsed.is_valid <=>
                      (PlaceGroup(UrlPath(LastResponse)) # <<>>
                       \/ CoordsGroups(UrlPath(LastResponse)) # <<>>)

\* A short link whose HEAD request raised and whose GET request answered
\* with a listing address: the result is valid, on that address.
C22_Witness ==
    /\ IsShortLink(url) /\ is_google_maps_url(url)
    /\ Len(http_requests) = 2
    /\ http_requests[1].response = <<"raises">>
    /\ http_requests[2].response # <<"raises">>
    /\ parsed.is_valid /\ parsed.final_url = http_requests[2].response

\* ---------------------------------------------------------------- C21
\* C21: the empty input, an input that is not a string and every URL whose
\* host is not one of the mapping service's give is_valid = FALSE, whatever
\* the path or the query of the URL holds.
ListingHosts == {"www.google.com", "maps.google.com", "goo.gl", "maps.app.goo.gl"}

OnListingSite(u) ==
    \/ Len(u) >= 2 /\ u[1] = "https://" /\ u[2] \in ListingHosts
    \/ Len(u) >= 1 /\ u[1] \in ListingHosts

C21_NonListingIsInvalid ==
    /\ parsed.original_url = NotAString => ~parsed.is_valid
    /\ url # <<>> /\ ~OnListingSite(url) => ~parsed.is_valid

\* The parts of C21 the code keeps: the empty input and the input that is
\* not a string are invalid, and so is every URL in which none of the five
\* patterns occurs anywhere.
C21_UnmatchedIsInvalid ==
    /\ parsed.original_url \in {<<>>, NotAString} => ~parsed.is_valid
    /\ url # <<>> /\ ~is_google_maps_url(url) =>
          /\ parsed = InvalidResult(url, url)
          /\ http_requests = <<>>

\* ---------------------------------------------------------------- C26
\* C26: two save_reviewer calls return the same id exactly when they carried
\* the same external id, or carried none and had equal (name,
\* total_reviews_count) pairs, a missing count included; and no two rows of
\* table reviewers share a dedup key.
SameDedupKey(a, b) ==
    \/ a.google_id # "None" /\ a.google_id = b.google_id
    \/ /\ a.google_id = "None" /\ b.google_id = "None"
       /\ a.name = b.name /\ a.total_reviews_count = b.total_reviews_count

C26_SameIdIffSameKey ==
    /\ \A i, j \in 1..Len(reviewer_calls) :
          reviewer_calls[i].id = reviewer_calls[j].id
              <=> SameDedupKey(reviewer_calls[i].data, reviewer_calls[j].data)
    /\ \A k, m \in 1..Len(reviewers) :
          k # m => ~SameDedupKey(reviewers[k], reviewers[m])

\* What the code keeps: a call that carries an external id already stored
\* returns the id of the row with that id, and two calls with the same name
\* and the same count, a number, and no external id return the same id.
C26_FoundRowsAreReused ==
    \A i, j \in 1..Len(reviewer_calls) :
        /\ i < j
        /\ reviewer_calls[i].data.google_id = "None"
        /\ reviewer_calls[j].data.google_id = "None"
        /\ reviewer_calls[i].data.name = reviewer_calls[j].data.name
        /\ reviewer_calls[i].data.total_reviews_count # "None"
        /\ reviewer_calls[i].data.total_reviews_count = reviewer_calls[j].data.total_reviews_count
        => reviewer_calls[i].id = reviewer_calls[j].id

PostRedirect(raw) == IF IsShortLink(raw) THEN ResolvedShop ELSE raw

C23_PostRedirectKey ==
    /\ \A w \in Workers :
          /\ req[w].lookup_key \in {<<>>, PostRedirect(req[w].raw)}
          /\ req[w].goto_url \in {<<>>, PostRedirect(req[w].raw)}
          /\ req[w].pc \notin {"idle", "gate", "done"} =>
                req[w].lookup_key = PostRedirect(req[w].raw)
          /\ req[w].pc \in {"close", "select", "upsert", "reviewers",
                            "save_analysis", "update_time"} =>
                req[w].goto_url = PostRedirect(req[w].raw)
          /\ req[w].response = "cached report" =>
                businesses[req[w].business_id].url = PostRedirect(req[w].raw)
    /\ \A k \in 1..Len(businesses) :
          /\ businesses[k].url = PostRedirect(businesses[k].first_raw)
          /\ ~IsShortLink(businesses[k].url)

\* One short link was analysed and the other one is answered from that row.
C23_Witness ==
    \E w \in Workers :
        /\ req[w].response = "cached report"
        /\ req[w].raw = ShortB
        /\ businesses[req[w].business_id].first_raw = ShortA

\* ---------------------------------------------------------------- C24
\* C24: a row's last_analyzed, once set, stays set and its url stays; a
\* request that reaches the gate while a row with its resolved url has
\* last_analyzed set is answered with that row's report in that very step,
\* fresh or stale, with no scraper created and no table written, and does
\* nothing more; with no such row, or with last_analyzed null, it goes on to
\* create a scraper.
Analysed(k, u) == businesses[k].url = u /\ businesses[k].last_analyzed # "null"

C27_ReferentialIntegrity ==
    /\ \A k \in 1..Len(review_rows) :
          /\ review_rows[k].business_id \in 1..Len(businesses)
          /\ review_rows[k].reviewer_id \in 1..Len(reviewers)
    /\ \A k \in 1..Len(analysis_results) :
          analysis_results[k].business_id \in 1..Len(businesses)

\* Reviews and an analysis are stored and a request failed in the store.
C27_Witness ==
    /\ Len(review_rows) >= 2
    /\ analysis_results # <<>>
    /\ \E w \in Workers : req[w].response = "Error analyzing reviews"

\* ---------------------------------------------------------------- C29
\* C29: every scraper object is initialised, used and closed by the request
\* that created it, its page is used only between its initialize and its
\* close, and no two requests in flight hold the same scraper.
C29_SessionOwnedByOneRequest ==
    /\ \A k \in 1..Len(sessions) : ~sessions[k].misused
    /\ \A w \in Workers :
          req[w].scraper # 0 =>
              /\ req[w].scraper \in 1..Len(sessions)
              /\ sessions[req[w].scraper].opened_by = w
              /\ \A v \in Workers : v # w => req[v].scraper # req[w].scraper

\* Two requests have a session open at the same time.
C29_Witness ==
    \E k, m \in 1..Len(sessions) :
        /\ sessions[k].opened_by # sessions[m].opened_by
        /\ sessions[k].state = "open" /\ sessions[m].state = "open"

\* ---------------------------------------------------------------- C40
\* C40: _detect_language returns 'he' exactly when more than 30% of the
\* characters of the text lie in U+0590..U+05FF, and 'en' otherwise; the
\* empty text and a text with exactly 30% of them give 'en'.
InHebrewBlock(c) == c \in 1424..1535

C40_HebrewAboveThirtyPercent ==
    language # NoLanguage =>
        (language = "he" <=>
            10 * Len(SelectSeq(lang_text, InHebrewBlock)) > 3 * Len(lang_text))

\* What the code keeps: the empty text, and every text with 30% of its
\* characters or fewer in the block, give 'en'.
C40_DefaultOtherwise ==
    /\ language # NoLanguage /\ lang_text = <<>> => language = "en"
    /\ language # NoLanguage
       /\ 10 * Len(SelectSeq(lang_text, InHebrewBlock)) <= 3 * Len(lang_text)
       => language = "en"

\* ---------------------------------------------------------------- C38
\* C38: follow_redirect follows at most max_redirects redirects, and a short
\* link with more redirects than that in its chain does not resolve.
C38_BoundedByBudget ==
    redirect_chain # 0 =>
        /\ followed.hops <= max_redirects
        /\ redirect_chain > max_redirects => followed.raises

\* What the code keeps: a chain is followed to its end or the call raises,
\* and a chain within the budget resolves.
C38_WithinBudgetResolves ==
    redirect_chain # 0 =>
        /\ ~followed.raises => followed.hops = redirect_chain
        /\ redirect_chain <= max_redirects => ~followed.raises

\* ---------------------------------------------------------------- C31
\* C31: the selectors are queried in the order of the list; the full-page
\* scan runs only after every selector was queried and none gave a click
\* that succeeded; only elements with the keyword in their text are clicked;
\* after a click that succeeded no element is clicked; and the function
\* returns True exactly when one click succeeded.
C31_TwoTierSingleActivation ==
    /\ tried = SubSeq(review_button_selectors, 1, Len(tried))
    /\ tab_pc = "scan" =>
          /\ tried = review_button_selectors
          /\ tab_clicks.succeeded = 0
    /\ tab_clicks.without_keyword = 0
    /\ tab_clicks.after_success = 0
    /\ tab_clicks.succeeded <= 1
    /\ tab_pc = "returned" =>
          /\ tab_result \in {"True", "False"}
          /\ tab_result = "True" <=> tab_clicks.succeeded = 1
          /\ tab_result = "False" => tried = review_button_selectors
    /\ tab_pc # "returned" => tab_result = "none" /\ tab_clicks.succeeded = 0

\* The fallback clicked the reviews control after clicks of tier one raised.
C31_Witness ==
    /\ tab_pc = "returned" /\ tab_result = "True"
    /\ tried = review_button_selectors
    /\ tab_clicks.failed >= 1 /\ tab_clicks.succeeded = 1

\* ---------------------------------------------------------------- C32
\* C32: within one harvest no element position is extracted twice.  Every
\* extraction appends one record, and an enumeration renders at most
\* MaxRendered positions, so a harvest that extracts each position at most
\* once never holds more than MaxRendered records.
C32_NoPositionExtractedTwice ==
    reviews <= MaxRendered

\* What the loop does keep: within one enumeration the positions from
\* last_count on are extracted in order, each once.
C32_EachEnumerationInOrder ==
    pc = "extract" => last_count <= elem /\ elem < review_elements

\* ---------------------------------------------------------------- C33
ScrapePcs == {"create", "initialize", "scrape", "close"}
StorePcs == {"select", "upsert", "reviewers", "save_analysis", "update_time"}
ScrapeErrors == {"Error scraping reviews", "No reviews found"}

\* C33: a request in its scrape phase writes nothing to the store; when the
\* scrape raised or returned no reviews the request answers with an error
\* page from there, and never enters the store phase.
C33_FailedScrapeLeavesStore ==
    [][\A w \in Workers :
          req'[w] # req[w] =>
             /\ req[w].pc \in ScrapePcs =>
                   UNCHANGED <<businesses, review_rows, analysis_results, reviewers>>
             /\ (req[w].pc = "close" /\ (req[w].raised \/ Len(req[w].result) = 0)) =>
                   req'[w].pc = "done" /\ req'[w].response \in ScrapeErrors
             /\ (req[w].pc = "initialize" /\ req'[w].pc # "scrape") =>
                   req'[w].pc = "done" /\ req'[w].response \in ScrapeErrors
             /\ req'[w].pc \in StorePcs =>
                   ~req'[w].raised /\ Len(req'[w].result) > 0]_vars

\* A scrape without reviews was answered while the store held rows.
C33_Witness ==
    /\ \E w \in Workers : req[w].response = "No reviews found"
    /\ Len(businesses) > 0 /\ Len(review_rows) > 0 /\ Len(analysis_results) > 0

\* ---------------------------------------------------------------- C34
\* The report route: the business row, then the latest analysis of it.
report(business_id) ==
    IF business_id \notin 1..Len(businesses) THEN "Business not found"
    ELSE IF \A a \in 1..Len(analysis_results) :
               analysis_results[a].business_id # business_id
    THEN "Analysis not found"
    ELSE "report"

AnalyzeErrors ==
    {"Error analyzing reviews", "Error analyzing reviews: UNIQUE constraint failed"}

\* C34: a business with last_analyzed set has an analysis result; a cache
\* hit leads to a report that is found; and a request that answers with an
\* analysis error has set no last_analyzed.
C34_AnalyzedImpliesResult ==
    /\ [](/\ \A k \in 1..Len(businesses) :
                businesses[k].last_analyzed # "null" => report(k) = "report"
          /\ \A w \in Workers :
                req[w].response = "cached report" => report(req[w].business_id) = "report")
    /\ [][\A w \in Workers :
             (req[w].pc \in StorePcs /\ req'[w].response \in AnalyzeErrors) =>
                 businesses' = businesses]_vars

\* A cache hit was answered, and a business whose request failed after its
\* row was inserted stays without last_analyzed.
C34_Witness ==
    /\ \E w \in Workers : req[w].response = "cached report"
    /\ \E k \in 1..Len(businesses) : businesses[k].last_analyzed # "null"

\* The failure case: an analysis error after the analysis row was committed.
C34_WitnessFailure ==
    /\ \E w \in Workers :
          /\ req[w].response = "Error analyzing reviews"
          /\ req[w].business_id # 0
          /\ businesses[req[w].business_id].last_analyzed = "null"
          /\ report(req[w].business_id) = "report"

\* ---------------------------------------------------------------- C35
\* C35: every analysis was made of reviews read after the request's bulk
\* insert: the rows the request inserted (there are some), each once, and
\* every row the table then held for the business, and no other.
C35_ScoresWhatWasReadBack ==
    \A a \in 1..Len(analysis_results) :
        LET row == analysis_results[a]
        IN  /\ row.harvested # {}
            /\ row.harvested \subseteq 1..row.stored_then
            /\ row.harvested \subseteq row.scored
            /\ row.scored = {k \in 1..row.stored_then :
                                review_rows[k].business_id = row.business_id}

\* An analysis of a second scrape: it read the rows of the first as well.
C35_Witness ==
    \E a \in 1..Len(analysis_results) :
        /\ Cardinality(analysis_results[a].harvested) = 2
        /\ Cardinality(analysis_results[a].scored) = 4

\* ---------------------------------------------------------------- C36
\* C36: the stored review rows stay as they are and in place; only the bulk
\* insert adds rows, one per harvested review, all of the request's business.
C36_ReviewRowsAppendOnly ==
    [][/\ Len(review_rows') >= Len(review_rows)
       /\ SubSeq(review_rows', 1, Len(review_rows)) = review_rows
       /\ \A w \in Workers :
             (req[w].pc = "reviewers" /\ req'[w].pc \in {"save_analysis", "update_time"}) =>
                /\ Len(review_rows') = Len(review_rows) + Len(req[w].result)
                /\ \A k \in (Len(review_rows) + 1)..Len(review_rows') :
                      review_rows'[k].business_id = req[w].business_id
       /\ (\A w \in Workers : req[w].pc # "reviewers") => review_rows' = review_rows]_vars

\* One business scraped and stored twice holds the rows of both scrapes,
\* the same reviews twice.
C36_Witness ==
    /\ Len(businesses) = 1
    /\ Len(review_rows) = 4
    /\ review_rows[1] = review_rows[3] /\ review_rows[2] = review_rows[4]

C39_EvidenceIndependentOfOrder ==
    listed # <<>> => evidence.as_stored = evidence.reordered

\* At most FlaggedLimit items qualify and one cluster is the largest.
NothingCutNothingTied(rs) ==
    /\ Len(similar_pairs(rs)) <= FlaggedLimit
    /\ Len(clusters(rs)) <= FlaggedLimit
    /\ \A a, b \in 1..Len(clusters(rs)) :
          a # b => \/ clusters(rs)[a].count # clusters(rs)[b].count
                   \/ \E c \in 1..Len(clusters(rs)) :
                         clusters(rs)[c].count > clusters(rs)[a].count

\* What does hold: without a cut and without a tie the reports agree; the
\* counts in the reasonings and the number of items reported always agree.
C39_AgreesWithoutCutOrTie ==
    listed # <<>> =>
       /\ NothingCutNothingTied(listed) => evidence.as_stored = evidence.reordered
       /\ evidence.as_stored.text_reasoning = evidence.reordered.text_reasoning
       /\ Cardinality(evidence.as_stored.pairs) = Cardinality(evidence.reordered.pairs)
       /\ evidence.as_stored.timing_reasoning.n = evidence.reordered.timing_reasoning.n
       /\ evidence.as_stored.timing_reasoning.top = evidence.reordered.timing_reasoning.top
       /\ evidence.as_stored.clusters = evidence.reordered.clusters

====
